---- MODULE Spec2Model ----
(***************************************************************************)
(* Model of the claw-world event normalization layer: the adapter          *)
(* registry (shared/adapters/index.ts), the native Claude Code adapter     *)
(* (shared/adapters/claude-code-adapter.ts) and the generic pass-through   *)
(* adapter (shared/adapters/generic-adapter.ts), and of the event bus with *)
(* the handlers that src/events/handlers register on it.                   *)
(*                                                                         *)
(* JavaScript values are tagged records; a JavaScript object is a function *)
(* from its own property names to values.  A call either returns a value   *)
(* or throws; a thrown TypeError is the outcome Throw.                     *)
(***************************************************************************)
EXTENDS Integers, Sequences, FiniteSets, TLC

VARIABLES adapters, registered, raw, arg, rnd, result, op,
          handlers, subscribed, ctx, calls,
          manager, activeSubagents, managerLog, dispatched,
          isDemoMode, isExplicitDemo, isReplayMode, timers, onComplete,
          timerQueue, nextHandle, runNo, firings, effects

vars == <<adapters, registered, raw, arg, rnd, result, op,
          handlers, subscribed, ctx, calls,
          manager, activeSubagents, managerLog, dispatched,
          isDemoMode, isExplicitDemo, isReplayMode, timers, onComplete,
          timerQueue, nextHandle, runNo, firings, effects>>

\* the demo engine's module state, the browser's timers and what they did
demoVars == <<isDemoMode, isExplicitDemo, isReplayMode, timers, onComplete,
              timerQueue, nextHandle, runNo, firings, effects>>

\* the session's subagent manager and statistics, and what was done to them
sessionVars == <<manager, activeSubagents, managerLog, dispatched>>

\* the state of the event bus and of its last dispatch
busVars == <<handlers, subscribed, ctx, calls>>

-----------------------------------------------------------------------------
(* JavaScript values *)

Undef == [t |-> "undefined"]
Null == [t |-> "null"]
Throw == [t |-> "throw"]
Str(s) == [t |-> "string", s |-> s]
Num(n) == [t |-> "number", n |-> n]
Bool(b) == [t |-> "boolean", b |-> b]
Obj(o) == [t |-> "object", o |-> o]
Fn(name) == [t |-> "function", name |-> name]

EmptyObj == Obj(<<>>)

\* typeof v
TypeOf(v) ==
  IF v.t = "null" THEN "object" ELSE v.t

\* ToBoolean(v): the test made by !v, v || d and if (v)
Truthy(v) ==
  CASE v.t = "undefined" -> FALSE
    [] v.t = "null" -> FALSE
    [] v.t = "string" -> v.s # ""
    [] v.t = "number" -> v.n # 0
    [] v.t = "boolean" -> v.b
    [] OTHER -> TRUE

\* o.k on a record of own properties: a missing property reads undefined
Field(o, k) ==
  IF k \in DOMAIN o THEN o[k] ELSE Undef

\* v.k on a value that is neither undefined nor null: only objects carry the
\* properties read by the adapters; primitives read undefined for them
Get(v, k) ==
  IF v.t = "object" THEN Field(v.o, k) ELSE Undef

\* o.k = v on a record of own properties
SetField(o, k, v) ==
  (k :> v) @@ o

\* a || b
OrElse(a, b) ==
  IF Truthy(a) THEN a ELSE b

-----------------------------------------------------------------------------
(* JavaScript string operations used by the adapters *)

UpperLetters == "ABCDEFGHIJKLMNOPQRSTUVWXYZ"
LowerLetters == "abcdefghijklmnopqrstuvwxyz"

CharAt(s, i) == SubSeq(s, i, i)

\* positions of the one-character string c in s
IndicesOf(s, c) ==
  {i \in 1..Len(s) : CharAt(s, i) = c}

MinOf(S) == CHOOSE x \in S : \A y \in S : x <= y
MaxOf(S) == CHOOSE x \in S : \A y \in S : x >= y

\* s.startsWith(p)
StartsWith(s, p) ==
  Len(s) >= Len(p) /\ SubSeq(s, 1, Len(p)) = p

\* s.includes(sub)
Includes(s, sub) ==
  \E i \in 1..(Len(s) - Len(sub) + 1) : SubSeq(s, i, i + Len(sub) - 1) = sub

LowerChar(c) ==
  LET up == IndicesOf(UpperLetters, c)
  IN IF up = {} THEN c ELSE CharAt(LowerLetters, MinOf(up))

\* s.toLowerCase()
RECURSIVE ToLowerCase(_)
ToLowerCase(s) ==
  IF s = "" THEN "" ELSE LowerChar(Head(s)) \o ToLowerCase(Tail(s))

\* s.split(sep)[0] for a one-character separator
SplitFirst(s, sep) ==
  LET at == IndicesOf(s, sep)
  IN IF at = {} THEN s ELSE SubSeq(s, 1, MinOf(at) - 1)

\* s.split(sep).pop() for a one-character separator
SplitLast(s, sep) ==
  LET at == IndicesOf(s, sep)
  IN IF at = {} THEN s ELSE SubSeq(s, MaxOf(at) + 1, Len(s))

\* a slice that stops one character early
SliceTo_OneShort(s, n) ==
  IF Len(s) < n THEN s ELSE SubSeq(s, 1, n - 1)

\* s.slice(0, n)
SliceTo(s, n) ==
  IF Len(s) <= n THEN s ELSE SubSeq(s, 1, n)

\* ToString(v) as applied by a template literal
ToStr(v) ==
  CASE v.t = "string" -> v.s
    [] v.t = "number" -> ToString(v.n)
    [] v.t = "boolean" -> IF v.b THEN "true" ELSE "false"
    [] v.t = "undefined" -> "undefined"
    [] v.t = "null" -> "null"
    [] v.t = "function" -> "function " \o v.name \o "() { [native code] }"
    [] OTHER -> "[object Object]"

-----------------------------------------------------------------------------
(* Tool categorization: claude-code-adapter.ts *)

VALID_CATEGORIES ==
  {"read", "write", "edit", "execute", "search",
   "network", "delegate", "plan", "interact", "other"}

CLAUDE_TOOL_CATEGORIES ==
  [Read |-> "read", Write |-> "write", Edit |-> "edit", Bash |-> "execute",
   Grep |-> "search", Glob |-> "search", WebFetch |-> "network",
   WebSearch |-> "network", Task |-> "delegate", TodoWrite |-> "plan",
   AskUserQuestion |-> "interact", NotebookEdit |-> "edit"]

\* The table is an object literal: its prototype is Object.prototype, whose
\* properties the `in` operator finds as well as the table's own.
ObjectPrototypeKeys ==
  {"constructor", "toString", "toLocaleString", "valueOf", "hasOwnProperty",
   "isPrototypeOf", "propertyIsEnumerable", "__proto__",
   "__defineGetter__", "__defineSetter__", "__lookupGetter__", "__lookupSetter__"}

\* key in CLAUDE_TOOL_CATEGORIES
InToolTable(key) ==
  key \in DOMAIN CLAUDE_TOOL_CATEGORIES \/ key \in ObjectPrototypeKeys

\* CLAUDE_TOOL_CATEGORIES[key] for a key the `in` operator found
ToolTableLookup(key) ==
  IF key \in DOMAIN CLAUDE_TOOL_CATEGORIES THEN Str(CLAUDE_TOOL_CATEGORIES[key])
  ELSE IF key = "__proto__" THEN EmptyObj
  ELSE Fn(key)

\* the heuristic with the network rule tried before the search rule
McpCategory_NetworkBeforeSearch(lower) ==
  IF Includes(lower, "browser") \/ Includes(lower, "playwright") THEN "interact"
  ELSE IF Includes(lower, "fetch") \/ Includes(lower, "http") \/ Includes(lower, "api") THEN "network"
  ELSE IF Includes(lower, "search") \/ Includes(lower, "query") THEN "search"
  ELSE IF Includes(lower, "read") \/ Includes(lower, "get") THEN "read"
  ELSE IF Includes(lower, "write") \/ Includes(lower, "create") \/ Includes(lower, "set") THEN "write"
  ELSE IF Includes(lower, "edit") \/ Includes(lower, "update") \/ Includes(lower, "modify") THEN "edit"
  ELSE IF Includes(lower, "run") \/ Includes(lower, "exec") THEN "execute"
  ELSE ""

\* the heuristic on the lower-cased name of an mcp__ tool; "" when no rule matches
McpCategory(lower) ==
  IF Includes(lower, "browser") \/ Includes(lower, "playwright") THEN "interact"
  ELSE IF Includes(lower, "search") \/ Includes(lower, "query") THEN "search"
  ELSE IF Includes(lower, "fetch") \/ Includes(lower, "http") \/ Includes(lower, "api") THEN "network"
  ELSE IF Includes(lower, "read") \/ Includes(lower, "get") THEN "read"
  ELSE IF Includes(lower, "write") \/ Includes(lower, "create") \/ Includes(lower, "set") THEN "write"
  ELSE IF Includes(lower, "edit") \/ Includes(lower, "update") \/ Includes(lower, "modify") THEN "edit"
  ELSE IF Includes(lower, "run") \/ Includes(lower, "exec") THEN "execute"
  ELSE ""

\* ClaudeCodeAdapter.categorize(toolName), toolName any value
categorize(toolName) ==
  IF InToolTable(ToStr(toolName)) THEN ToolTableLookup(ToStr(toolName))
  ELSE IF toolName.t # "string" THEN Throw
  ELSE IF StartsWith(toolName.s, "mcp__") /\ McpCategory(ToLowerCase(toolName.s)) # ""
       THEN Str(McpCategory(ToLowerCase(toolName.s)))
  ELSE Str("other")

-----------------------------------------------------------------------------
(* The category taxonomy: agent-protocol.ts, ToolUtils.ts *)

CATEGORY_STATION_MAP ==
  [read |-> "bookshelf", write |-> "desk", edit |-> "workbench",
   execute |-> "terminal", search |-> "scanner", network |-> "antenna",
   delegate |-> "portal", plan |-> "taskboard", interact |-> "center",
   other |-> "center"]

CATEGORY_SOUND_MAP ==
  [read |-> "read", write |-> "write", edit |-> "edit", execute |-> "bash",
   search |-> "grep", network |-> "webfetch", delegate |-> "task",
   plan |-> "todo", interact |-> "notification", other |-> "read"]

\* the icons, by code point
CATEGORY_ICON_MAP ==
  [read |-> "U+1F4D6", write |-> "U+1F4DD", edit |-> "U+270F U+FE0F",
   execute |-> "U+1F4BB", search |-> "U+1F50D", network |-> "U+1F310",
   delegate |-> "U+1F916", plan |-> "U+1F4CB", interact |-> "U+2753",
   other |-> "U+1F527"]

\* table[key] for a table written as an object literal: an own property, a
\* property inherited from Object.prototype, or undefined
PropertyOf(table, key) ==
  IF ToStr(key) \in DOMAIN table THEN Str(table[ToStr(key)])
  ELSE IF ToStr(key) = "__proto__" THEN EmptyObj
  ELSE IF ToStr(key) \in ObjectPrototypeKeys THEN Fn(ToStr(key))
  ELSE Undef

\* a ?? b
Nullish(a, b) ==
  IF a \in {Undef, Null} THEN b ELSE a

\* getStationForCategory(category)
getStationForCategory(category) ==
  Nullish(PropertyOf(CATEGORY_STATION_MAP, category), Str("center"))

\* CATEGORY_SOUND_MAP[category], as the tool_start sound handler reads it
soundForCategory(category) ==
  PropertyOf(CATEGORY_SOUND_MAP, category)

\* getToolIconByCategory(category)
getToolIconByCategory(category) ==
  Nullish(PropertyOf(CATEGORY_ICON_MAP, category), Str("U+1F527"))

-----------------------------------------------------------------------------
(* new URL(url).hostname, for the URL strings the model feeds to WebFetch:   *)
(* scheme ":" ["//" authority] rest.  A string without a scheme is not a URL *)
(* and the constructor throws; a special scheme needs a non-empty host.      *)

SpecialSchemes == {"http", "https", "ws", "wss", "ftp"}

IsSchemeChar(c) ==
  \/ IndicesOf(UpperLetters, c) # {}
  \/ IndicesOf(LowerLetters, c) # {}
  \/ IndicesOf("0123456789+-.", c) # {}

IsLetter(c) ==
  IndicesOf(UpperLetters, c) # {} \/ IndicesOf(LowerLetters, c) # {}

RECURSIVE StripLeadingSlashes(_)
StripLeadingSlashes(s) ==
  IF s # "" /\ Head(s) = "/" THEN StripLeadingSlashes(Tail(s)) ELSE s

\* the part of s before the first of the characters in stops
UpToAny(s, stops) ==
  LET at == {i \in 1..Len(s) : CharAt(s, i) \in stops}
  IN IF at = {} THEN s ELSE SubSeq(s, 1, MinOf(at) - 1)

UrlScheme(s) ==
  LET colons == IndicesOf(s, ":")
  IN IF colons = {} THEN "" ELSE ToLowerCase(SubSeq(s, 1, MinOf(colons) - 1))

UrlAfterScheme(s) ==
  SubSeq(s, MinOf(IndicesOf(s, ":")) + 1, Len(s))

\* host of "user@host:port" without user and port
HostOfAuthority(auth) ==
  LET noUser == SplitLast(auth, "@")
  IN ToLowerCase(SplitFirst(noUser, ":"))

UrlHostname(s) ==
  LET rest == UrlAfterScheme(s)
  IN IF UrlScheme(s) \in SpecialSchemes
       THEN HostOfAuthority(UpToAny(StripLeadingSlashes(rest), {"/", "?", "#"}))
     ELSE IF StartsWith(rest, "//")
       THEN HostOfAuthority(UpToAny(SubSeq(rest, 3, Len(rest)), {"/", "?", "#"}))
     ELSE ""

UrlValid(s) ==
  /\ UrlScheme(s) # ""
  /\ IsLetter(Head(UrlScheme(s)))
  /\ \A i \in 1..Len(UrlScheme(s)) : IsSchemeChar(CharAt(UrlScheme(s), i))
  /\ UrlScheme(s) \in SpecialSchemes => UrlHostname(s) # ""

-----------------------------------------------------------------------------
(* Context extraction: claude-code-adapter.ts *)

FILE_TOOLS == {"Read", "Write", "Edit", "NotebookEdit"}

\* cap of the Bash first line and of an unparsable WebFetch url
CONTEXT_MAX == 30

\* extractContext(tool, input): a value, or Throw when a method is called on
\* a value that does not have it
extractContext(tool, input) ==
  IF tool.t # "string" THEN Undef
  ELSE IF tool.s \in FILE_TOOLS THEN
    LET path == OrElse(Get(input, "file_path"), Get(input, "notebook_path"))
    IN IF ~Truthy(path) THEN Undef
       ELSE IF path.t # "string" THEN Throw
       ELSE IF SplitLast(path.s, "/") # "" THEN Str(SplitLast(path.s, "/"))
       ELSE path
  ELSE IF tool.s = "Bash" THEN
    LET cmd == Get(input, "command")
    IN IF ~Truthy(cmd) THEN Undef
       ELSE IF cmd.t # "string" THEN Throw
       ELSE LET firstLine == SplitFirst(cmd.s, "\n")
            IN IF Len(firstLine) > CONTEXT_MAX
                 THEN Str(SliceTo(firstLine, CONTEXT_MAX) \o "...")
                 ELSE Str(firstLine)
  ELSE IF tool.s = "Grep" THEN
    LET pattern == Get(input, "pattern")
    IN IF Truthy(pattern) THEN Str("/" \o ToStr(pattern) \o "/") ELSE Undef
  ELSE IF tool.s = "Glob" THEN
    OrElse(Get(input, "pattern"), Undef)
  ELSE IF tool.s = "WebFetch" THEN
    LET url == Get(input, "url")
    IN IF ~Truthy(url) THEN Undef
       ELSE IF url.t # "string" THEN Throw
       ELSE IF UrlValid(url.s) THEN Str(UrlHostname(url.s))
       ELSE Str(SliceTo(url.s, CONTEXT_MAX))
  ELSE IF tool.s = "WebSearch" THEN
    LET query == Get(input, "query")
    IN IF Truthy(query) THEN Str("\"" \o ToStr(query) \o "\"") ELSE Undef
  ELSE IF tool.s = "Task" THEN
    OrElse(Get(input, "description"), Undef)
  ELSE IF tool.s = "TodoWrite" THEN Str("Updating tasks")
  ELSE Undef

-----------------------------------------------------------------------------
(* The native adapter: claude-code-adapter.ts *)

\* a list with a type that normalize has no case for
claudeTypes_Extra ==
  {"pre_tool_use", "post_tool_use", "stop", "subagent_stop",
   "session_start", "session_end", "user_prompt_submit",
   "notification", "pre_compact", "custom_ping"}

claudeTypes ==
  {"pre_tool_use", "post_tool_use", "stop", "subagent_stop",
   "session_start", "session_end", "user_prompt_submit",
   "notification", "pre_compact"}

\* ClaudeCodeAdapter.canHandle(raw)
ClaudeCanHandle(r) ==
  /\ Truthy(Field(r, "type"))
  /\ Truthy(Field(r, "sessionId"))
  /\ Field(r, "type").t = "string"
  /\ Field(r, "type").s \in claudeTypes

\* a mapping that hands every string source through
mapStartSource_PassThrough(source) ==
  IF source.t = "string" THEN source.s ELSE "other"

\* ClaudeCodeAdapter.mapStartSource(source)
mapStartSource(source) ==
  IF source = Str("startup") THEN "startup"
  ELSE IF source = Str("resume") THEN "resume"
  ELSE "other"

\* the object literal { ...base, <overrides> }
Spread(base, overrides) ==
  overrides @@ base

\* a base that takes the agent from raw.agentId
ClaudeBase_AgentIdFromRaw(r, g) ==
  [id |-> OrElse(Field(r, "id"), Str(g.id)),
   timestamp |-> OrElse(Field(r, "timestamp"), Num(g.now)),
   agentId |-> Field(r, "agentId"),
   source |-> Str("claude-code"),
   cwd |-> Field(r, "cwd")]

\* the `base` object of ClaudeCodeAdapter.normalize
ClaudeBase(r, g) ==
  [id |-> OrElse(Field(r, "id"), Str(g.id)),
   timestamp |-> OrElse(Field(r, "timestamp"), Num(g.now)),
   agentId |-> Field(r, "sessionId"),
   source |-> Str("claude-code"),
   cwd |-> Field(r, "cwd")]

\* a primary event that keeps the id of its companion
ToolEventId_Same(id) ==
  id

\* id + '_tool'
ToolEventId(id) ==
  Str(ToStr(id) \o "_tool")

\* a companion event that carries the event id where the toolUseId belongs
SpawnEvent_EventIdAsToolUseId(r, g) ==
  Spread(ClaudeBase(r, g),
    [type |-> Str("subagent_spawn"),
     parentAgentId |-> Field(r, "sessionId"),
     description |-> OrElse(Get(OrElse(Field(r, "toolInput"), EmptyObj), "description"), Undef),
     toolUseId |-> ClaudeBase(r, g).id])

\* the spawnEvent object of case 'pre_tool_use'
SpawnEvent(r, g) ==
  Spread(ClaudeBase(r, g),
    [type |-> Str("subagent_spawn"),
     parentAgentId |-> Field(r, "sessionId"),
     description |-> OrElse(Get(OrElse(Field(r, "toolInput"), EmptyObj), "description"), Undef),
     toolUseId |-> Field(r, "toolUseId")])

\* the endEvent object of case 'post_tool_use'
EndEvent(r, g) ==
  Spread(ClaudeBase(r, g),
    [type |-> Str("subagent_end"), toolUseId |-> Field(r, "toolUseId")])

\* case 'pre_tool_use'
ClaudePreToolUse(r, g) ==
  LET base == ClaudeBase(r, g)
      toolName == Field(r, "tool")
      toolInput == OrElse(Field(r, "toolInput"), EmptyObj)
      toolUseId == Field(r, "toolUseId")
      category == categorize(toolName)
      context == extractContext(toolName, toolInput)
      toolStart == Spread(base,
        [type |-> Str("tool_start"),
         tool |-> Obj([name |-> toolName, category |-> category, id |-> toolUseId]),
         input |-> toolInput,
         context |-> context])
  IN IF category = Throw \/ context = Throw THEN Throw
     ELSE IF toolName = Str("Task")
       THEN Obj(Spread(toolStart,
              [id |-> ToolEventId(base.id),
               metadata |-> Obj("_alsoEmit" :> Obj(SpawnEvent(r, g)))]))
     ELSE Obj(toolStart)

\* case 'post_tool_use'
ClaudePostToolUse(r, g) ==
  LET base == ClaudeBase(r, g)
      toolName == Field(r, "tool")
      toolUseId == Field(r, "toolUseId")
      category == categorize(toolName)
      toolEnd == Spread(base,
        [type |-> Str("tool_end"),
         tool |-> Obj([name |-> toolName, category |-> category, id |-> toolUseId]),
         success |-> Field(r, "success"),
         duration |-> Field(r, "duration")])
  IN IF category = Throw THEN Throw
     ELSE IF toolName = Str("Task")
       THEN Obj(Spread(toolEnd,
              [id |-> ToolEventId(base.id),
               metadata |-> Obj("_alsoEmit" :> Obj(EndEvent(r, g)))]))
     ELSE Obj(Spread(toolEnd,
              [output |-> OrElse(Field(r, "toolResponse"), Undef)]))

\* ClaudeCodeAdapter.normalize(raw); g holds the values crypto.randomUUID()
\* and Date.now() produce during the call
ClaudeNormalize(r, g) ==
  LET base == ClaudeBase(r, g)
      type == Field(r, "type")
  IN IF type = Str("pre_tool_use") THEN ClaudePreToolUse(r, g)
     ELSE IF type = Str("post_tool_use") THEN ClaudePostToolUse(r, g)
     ELSE IF type = Str("stop") THEN
       Obj(Spread(base, [type |-> Str("agent_idle"), reason |-> Str("stop"),
                         response |-> Field(r, "response")]))
     ELSE IF type = Str("subagent_stop") THEN
       Obj(Spread(base, [type |-> Str("agent_idle"), reason |-> Str("subagent_stop")]))
     ELSE IF type = Str("session_start") THEN
       Obj(Spread(base, [type |-> Str("agent_start"),
                         trigger |-> Str(mapStartSource(Field(r, "source")))]))
     ELSE IF type = Str("session_end") THEN
       Obj(Spread(base, [type |-> Str("agent_end"), reason |-> Field(r, "reason")]))
     ELSE IF type = Str("user_prompt_submit") THEN
       Obj(Spread(base, [type |-> Str("user_input"),
                         text |-> OrElse(Field(r, "prompt"), Str(""))]))
     ELSE IF type = Str("notification") THEN
       Obj(Spread(base, [type |-> Str("notification"),
                         message |-> OrElse(Field(r, "message"), Str("")),
                         level |-> Str("info")]))
     ELSE IF type = Str("pre_compact") THEN
       Obj(Spread(base, [type |-> Str("agent_thinking"),
                         metadata |-> Obj([trigger |-> Field(r, "trigger")])]))
     ELSE Null

-----------------------------------------------------------------------------
(* The generic pass-through adapter: generic-adapter.ts *)

\* the list with an entry that is not a canonical type tag
VALID_EVENT_TYPES_Extra ==
  {"tool_start", "tool_end", "agent_idle", "agent_thinking",
   "user_input", "agent_start", "agent_end", "notification",
   "subagent_spawn", "subagent_end", "bogus"}

VALID_EVENT_TYPES ==
  {"tool_start", "tool_end", "agent_idle", "agent_thinking",
   "user_input", "agent_start", "agent_end", "notification",
   "subagent_spawn", "subagent_end"}

\* VALID_EVENT_TYPES.includes(v) / VALID_CATEGORIES.includes(v)
IncludesValue(S, v) ==
  v.t = "string" /\ v.s \in S

\* GenericAdapter.canHandle(raw)
GenericCanHandle(r) ==
  /\ TypeOf(Field(r, "agentId")) = "string"
  /\ TypeOf(Field(r, "source")) = "string"
  /\ TypeOf(Field(r, "type")) = "string"
  /\ IncludesValue(VALID_EVENT_TYPES, Field(r, "type"))

\* an event object that always takes a fresh id and timestamp
GenericBase_AlwaysFresh(r, g) ==
  [id |-> Str(g.id),
   timestamp |-> Num(g.now),
   type |-> Field(r, "type"),
   agentId |-> Field(r, "agentId"),
   source |-> Field(r, "source"),
   cwd |-> Field(r, "cwd"),
   metadata |-> Field(r, "metadata")]

\* the `event` object of GenericAdapter.normalize
GenericBase(r, g) ==
  [id |-> OrElse(Field(r, "id"), Str(g.id)),
   timestamp |-> OrElse(Field(r, "timestamp"), Num(g.now)),
   type |-> Field(r, "type"),
   agentId |-> Field(r, "agentId"),
   source |-> Field(r, "source"),
   cwd |-> Field(r, "cwd"),
   metadata |-> Field(r, "metadata")]

\* the tool object after the category and id defaulting, which writes into
\* the caller's object
GenericToolAfter(tool, g) ==
  LET category == OrElse(Field(tool, "category"), Str("other"))
      t1 == IF ~IncludesValue(VALID_CATEGORIES, category)
              THEN SetField(tool, "category", Str("other"))
              ELSE tool
  IN IF ~Truthy(Field(t1, "id")) THEN SetField(t1, "id", Str(g.toolId)) ELSE t1

GenericIsToolType(type) ==
  type = Str("tool_start") \/ type = Str("tool_end")

\* a validation that tests the tool object but not its name
GenericToolOk_NoNameTest(r) ==
  Field(r, "tool").t = "object"

\* !(!tool || typeof tool.name !== 'string')
GenericToolOk(r) ==
  Truthy(Field(r, "tool")) /\ TypeOf(Get(Field(r, "tool"), "name")) = "string"

\* the raw object as GenericAdapter.normalize leaves it
GenericRawAfter(r, g) ==
  IF /\ IncludesValue(VALID_EVENT_TYPES, Field(r, "type"))
     /\ GenericIsToolType(Field(r, "type"))
     /\ GenericToolOk(r)
    THEN SetField(r, "tool", Obj(GenericToolAfter(Field(r, "tool").o, g)))
    ELSE r

\* a normalize that returns the rebuilt base fields without spreading raw
GenericNormalize_BaseOnly(r, g) ==
  IF ~IncludesValue(VALID_EVENT_TYPES, Field(r, "type")) THEN Null
  ELSE IF GenericIsToolType(Field(r, "type")) /\ ~GenericToolOk(r) THEN Null
  ELSE Obj(GenericBase(r, g))

\* GenericAdapter.normalize(raw): the value returned
GenericNormalize(r, g) ==
  IF ~IncludesValue(VALID_EVENT_TYPES, Field(r, "type")) THEN Null
  ELSE IF GenericIsToolType(Field(r, "type")) /\ ~GenericToolOk(r) THEN Null
  ELSE Obj(Spread(GenericRawAfter(r, g), GenericBase(r, g)))

-----------------------------------------------------------------------------
(* Adapters a caller may hand to registerAdapter.  EventAdapter is an open   *)
(* interface; these two implementations overlap with each other and with the *)
(* built-ins, and the first filters (returns null for) tool_start events.    *)

CustomAdapters == {"custom-a", "custom-b"}

CustomACanHandle(r) ==
  Field(r, "type") \in {Str("notification"), Str("tool_start"), Str("custom_ping")}

CustomANormalize(r, g) ==
  IF Field(r, "type") = Str("tool_start") THEN Null
  ELSE Obj([id |-> Str(g.id), timestamp |-> Num(g.now), type |-> Str("notification"),
            agentId |-> Str("agent-a"), source |-> Str("custom-a"),
            message |-> Str("from custom-a")])

CustomBCanHandle(r) ==
  Truthy(Field(r, "sessionId"))

CustomBNormalize(r, g) ==
  Obj([id |-> Str(g.id), timestamp |-> Num(g.now), type |-> Str("agent_thinking"),
       agentId |-> Field(r, "sessionId"), source |-> Str("custom-b")])

-----------------------------------------------------------------------------
(* The adapter registry: index.ts *)

\* const adapters = [new ClaudeCodeAdapter(), new GenericAdapter()]
\* a registry that tries the pass-through adapter first
BuiltInAdapters_GenericFirst == <<"generic", "claude-code">>

BuiltInAdapters == <<"claude-code", "generic">>

\* adapter.canHandle(raw)
CanHandle(a, r) ==
  CASE a = "claude-code" -> ClaudeCanHandle(r)
    [] a = "generic" -> GenericCanHandle(r)
    [] a = "custom-a" -> CustomACanHandle(r)
    [] a = "custom-b" -> CustomBCanHandle(r)

\* adapter.normalize(raw): the value returned
Normalize(a, r, g) ==
  CASE a = "claude-code" -> ClaudeNormalize(r, g)
    [] a = "generic" -> GenericNormalize(r, g)
    [] a = "custom-a" -> CustomANormalize(r, g)
    [] a = "custom-b" -> CustomBNormalize(r, g)

\* adapter.normalize(raw): the raw object afterwards
RawAfter(a, r, g) ==
  IF a = "generic" THEN GenericRawAfter(r, g) ELSE r

\* the loop of normalizeEvent from position i of the list: the adapter whose
\* normalize is called, or "" when the loop runs off the end
RECURSIVE FirstMatchFrom(_, _, _)
FirstMatchFrom(list, i, r) ==
  IF i > Len(list) THEN ""
  ELSE IF CanHandle(list[i], r) THEN list[i]
  ELSE FirstMatchFrom(list, i + 1, r)

\* a registry loop that goes on to the next adapter when normalize returns null
RECURSIVE NormalizeSkippingNull(_, _, _, _)
NormalizeSkippingNull(list, i, r, g) ==
  IF i > Len(list) THEN Null
  ELSE IF CanHandle(list[i], r) /\ Normalize(list[i], r, g) # Null
    THEN Normalize(list[i], r, g)
  ELSE NormalizeSkippingNull(list, i + 1, r, g)

normalizeEvent_SkipsNull(list, r, g) ==
  NormalizeSkippingNull(list, 1, r, g)

\* normalizeEvent(raw): the value returned
normalizeEvent(list, r, g) ==
  LET a == FirstMatchFrom(list, 1, r)
  IN IF a = "" THEN Null ELSE Normalize(a, r, g)

\* normalizeEvent(raw): the raw object afterwards
normalizeEventRawAfter(list, r, g) ==
  LET a == FirstMatchFrom(list, 1, r)
  IN IF a = "" THEN r ELSE RawAfter(a, r, g)

\* adapters.push(adapter): a registration at the back of the list
Unshift_Push(list, a) ==
  list \o <<a>>

\* adapters.unshift(adapter)
Unshift(list, a) ==
  <<a>> \o list

(* The event bus, after its design (events/EventBus.ts): one ordered        *)
(* handler list per event type; emit calls the list of the event's type in  *)
(* order and catches nothing.  The handlers are the ones soundHandlers.ts   *)
(* and subagentHandlers.ts register.  What a handler does to the sound      *)
(* manager and to the session is outside the bus; of a handler call the     *)
(* model keeps whether it returns or throws.                                *)

\* the event types handlers are registered for
BusEventTypes == VALID_EVENT_TYPES \cup claudeTypes

\* the event type each handler is registered for with eventBus.on
HandlerType ==
  [soundToolStart |-> "tool_start", soundSpawn |-> "tool_start",
   subagentToolStart |-> "tool_start", soundToolEnd |-> "tool_end"]

HandlerNames == DOMAIN HandlerType

\* event.tool.category throws when event.tool is undefined or null
ReadsCategoryOfNothing(e) ==
  Field(e, "tool").t \in {"undefined", "null"}

\* ctx.session.subagents.spawn(..) and ctx.session.stats.activeSubagents = ..
\* throw when the session lacks subagents or stats
SessionIncomplete(c) ==
  \/ Get(Get(c, "session"), "subagents").t # "object"
  \/ Get(Get(c, "session"), "stats").t \in {"undefined", "null"}

\* whether handler h throws when called with (event, ctx)
HandlerThrows(h, e, c) ==
  CASE h = "soundToolStart" ->
         Truthy(Get(c, "soundEnabled")) /\ ReadsCategoryOfNothing(e)
    [] h = "soundSpawn" ->
         Truthy(Get(c, "soundEnabled")) /\ ReadsCategoryOfNothing(e)
    [] h = "subagentToolStart" ->
         /\ Truthy(Get(c, "session"))
         /\ \/ ReadsCategoryOfNothing(e)
            \/ /\ Get(Field(e, "tool"), "category") = Str("delegate")
               /\ SessionIncomplete(c)
    [] OTHER -> FALSE

\* a registration that puts the new handler before the earlier ones
on_AtFront(hs, ty, h) ==
  [hs EXCEPT ![ty] = <<h>> \o @]

\* eventBus.on(ty, h)
on(hs, ty, h) ==
  [hs EXCEPT ![ty] = Append(@, h)]

\* the handler list emit looks up for an event
HandlersFor(hs, e) ==
  IF Field(e, "type").t = "string" /\ Field(e, "type").s \in DOMAIN hs
    THEN hs[Field(e, "type").s]
    ELSE <<>>

\* a dispatch that runs every handler and swallows what they throw
emit_Isolated(hs, e, c) ==
  [calls |-> [i \in 1..Len(HandlersFor(hs, e)) |->
                [handler |-> HandlersFor(hs, e)[i], event |-> e, ctx |-> c]],
   thrown |-> FALSE]

\* eventBus.emit(e, c): the handler calls made, and whether one of them threw
emit(hs, e, c) ==
  LET list == HandlersFor(hs, e)
      throwers == {i \in 1..Len(list) : HandlerThrows(list[i], e, c)}
      n == IF throwers = {} THEN Len(list) ELSE MinOf(throwers)
  IN [calls |-> [i \in 1..n |-> [handler |-> list[i], event |-> e, ctx |-> c]],
      thrown |-> throwers # {}]

-----------------------------------------------------------------------------
(* The subagent manager (SubagentManager.ts) and the handlers that drive it  *)
(* (subagentHandlers.ts).  A manager is its Map from toolUseId to subagent,  *)
(* its spawnIndex, and the Claude instances it created and has not disposed; *)
(* an instance is known by the spawnIndex it was created at.                 *)

\* the tint steps, in percent
TINT_LEVELS == <<35, 50, 65, 80>>

\* new SubagentManager(scene)
NewSubagentManager ==
  [subagents |-> <<>>, spawnIndex |-> 0, claudes |-> {}]

\* manager.count
Count(m) ==
  Cardinality(DOMAIN m.subagents)

\* manager.spawn(toolUseId, description)
spawn(m, toolUseId, description) ==
  IF toolUseId \in DOMAIN m.subagents THEN m
  ELSE [subagents |->
          [k \in DOMAIN m.subagents \cup {toolUseId} |->
             IF k = toolUseId
               THEN [toolUseId |-> toolUseId, claude |-> m.spawnIndex,
                     tint |-> TINT_LEVELS[(m.spawnIndex % Len(TINT_LEVELS)) + 1], description |-> description]
               ELSE m.subagents[k]],
        spawnIndex |-> m.spawnIndex + 1,
        claudes |-> m.claudes \cup {m.spawnIndex}]

\* manager.remove(toolUseId)
remove(m, toolUseId) ==
  IF toolUseId \notin DOMAIN m.subagents THEN m
  ELSE [subagents |-> [k \in DOMAIN m.subagents \ {toolUseId} |-> m.subagents[k]],
        spawnIndex |-> m.spawnIndex,
        claudes |-> m.claudes \ {m.subagents[toolUseId].claude}]

\* the manager call a subagent handler makes for event e in a context with a
\* session: "spawn" or "remove" with its id, or "none" when it returns first
SubagentHandlerCall(e) ==
  LET type == Field(e, "type")
      delegate == Get(Field(e, "tool"), "category") = Str("delegate")
  IN IF type = Str("tool_start") /\ delegate
       THEN [call |-> "spawn", id |-> Get(Field(e, "tool"), "id"),
             description |-> OrElse(Field(e, "context"),
                                    Get(Field(e, "input"), "description"))]
     ELSE IF type = Str("tool_end") /\ delegate
       THEN [call |-> "remove", id |-> Get(Field(e, "tool"), "id"),
             description |-> Undef]
     ELSE IF type = Str("subagent_spawn")
       THEN [call |-> "spawn", id |-> OrElse(Field(e, "toolUseId"), Field(e, "id")),
             description |-> Field(e, "description")]
     ELSE IF type = Str("subagent_end")
       THEN [call |-> "remove", id |-> OrElse(Field(e, "toolUseId"), Field(e, "id")),
             description |-> Undef]
     ELSE [call |-> "none", id |-> Undef, description |-> Undef]

\* the manager after the call c
AfterCall(m, c) ==
  IF c.call = "spawn" THEN spawn(m, c.id, c.description)
  ELSE IF c.call = "remove" THEN remove(m, c.id)
  ELSE m

-----------------------------------------------------------------------------
(* Bounded inputs *)

\* registerAdapter calls explored
MaxRegistered == 2

\* values crypto.randomUUID() and Date.now() may produce during one call
RndChoices ==
  {[id |-> "uuid-1", toolId |-> "uuid-2", now |-> 2000],
   [id |-> "uuid-3", toolId |-> "uuid-4", now |-> 2001]}

NoRnd == [id |-> "", toolId |-> "", now |-> 0]

IdOptions ==
  {[id |-> Undef, timestamp |-> Undef],
   [id |-> Str("e1"), timestamp |-> Num(1000)],
   [id |-> Str(""), timestamp |-> Num(0)]}

WhoOptions ==
  {[agentId |-> Undef, source |-> Undef],
   [agentId |-> Str("a1"), source |-> Str("custom")],
   [agentId |-> Num(7), source |-> Str("custom")]}

ToolValues ==
  {Undef, Null, Num(7), Str("Task"), Str("Read"), Str("constructor"),
   EmptyObj,
   Obj([name |-> Num(5), category |-> Str("read"), id |-> Str("t9")]),
   Obj([name |-> Str("Read")]),
   Obj([name |-> Str("Read"), category |-> Str("read"), id |-> Str("t9")]),
   Obj([name |-> Str("shell"), category |-> Str("bogus"), id |-> Num(0)])}

ToolExtras ==
  {[toolUseId |-> Undef, success |-> Undef, toolInput |-> Undef],
   [toolUseId |-> Str("t1"), success |-> Bool(FALSE),
    toolInput |-> Obj([description |-> Str("explore")])]}

\* tool events in the native and in the canonical vocabulary
ToolRaws ==
  {i @@ w @@ x @@ [type |-> Str(ty), sessionId |-> s, tool |-> t] :
     i \in IdOptions, w \in {o \in WhoOptions : o.agentId.t # "number"},
     x \in ToolExtras,
     ty \in {"pre_tool_use", "post_tool_use", "tool_start", "tool_end"},
     s \in {Undef, Str("s1")}, t \in ToolValues}

ToolNames ==
  DOMAIN CLAUDE_TOOL_CATEGORIES \cup
  {"constructor", "toString", "__proto__",
   "", "read", "task", "Reader", "search_tool", "MCP__search",
   "mcp__custom__foo", "mcp__", "mcp__playwright__browser_click",
   "mcp__web__search_fetch", "mcp__db__Query", "mcp__net__fetch_read",
   "mcp__HTTP_get", "mcp__api_writer", "mcp__fs__read_file",
   "mcp__kv__get_set", "mcp__fs__write_edit", "mcp__doc__create_update",
   "mcp__cfg__set_run", "mcp__doc__edit_exec", "mcp__doc__update",
   "mcp__doc__modify", "mcp__sh__run", "mcp__sh__exec"}

ContextInputs ==
  {Undef,
   Obj([file_path |-> Str("/a/b.txt"), command |-> Str("ls -la"),
        pattern |-> Str("foo"), url |-> Str("https://example.com/x"),
        query |-> Str("q"), description |-> Str("x")]),
   Obj([file_path |-> Num(5), command |-> Num(5), pattern |-> Num(5),
        url |-> Num(5), query |-> Num(5), description |-> Num(5)])}

\* native tool hooks over every tool name and tool input
NamedToolRaws ==
  {[type |-> Str(ty), sessionId |-> Str("s1"), id |-> Str("e1"),
    timestamp |-> Num(1000), tool |-> Str(n), toolUseId |-> Str("t1"),
    toolInput |-> inp, success |-> Bool(TRUE)] :
     ty \in {"pre_tool_use", "post_tool_use"}, n \in ToolNames,
     inp \in ContextInputs}

\* Bash commands around the cap: a first line of 30, 31 and 40 characters,
\* several lines, an empty first line
BashCommands ==
  {"ls -la", "echo hello\nworld", "\nfoo",
   "123456789012345678901234567890",
   "1234567890123456789012345678901",
   "1234567890123456789012345678901234567890\nnext",
   "123456789012345678901234567890\n1"}

FilePaths == {"/a/b.txt", "b.txt", "/a/b/", "/"}

SearchPatterns == {"foo", "**/*.ts", ""}

FetchUrls ==
  {"https://example.com/x", "HTTP://User@Example.COM:8080/p?q#f",
   "file:///x", "mailto:a@b.c", "not a url",
   "no scheme and a text longer than thirty characters"}

\* a tool name with the tool input that tool reads
ContextCases ==
  {<<"Bash", [command |-> Str(c)]>> : c \in BashCommands \cup {""}}
  \cup {<<t, [file_path |-> Str(f)]>> : t \in FILE_TOOLS, f \in FilePaths}
  \cup {<<"NotebookEdit", [notebook_path |-> Str(f)]>> : f \in FilePaths}
  \cup {<<t, [pattern |-> Str(f)]>> : t \in {"Grep", "Glob"}, f \in SearchPatterns}
  \cup {<<"WebFetch", [url |-> Str(u)]>> : u \in FetchUrls}
  \cup {<<"WebSearch", [query |-> Str(q)]>> : q \in {"tla", ""}}
  \cup {<<"Task", [description |-> Str(d)]>> : d \in {"explore", ""}}
  \cup {<<t, [other |-> Str("v")]>> : t \in {"TodoWrite", "AskUserQuestion", "Bash"}}

\* native pre_tool_use hooks over the tool inputs extractContext reads
ContextRaws ==
  {[type |-> Str("pre_tool_use"), sessionId |-> Str("s1"), id |-> Str("e1"),
    timestamp |-> Num(1000), tool |-> Str(c[1]), toolUseId |-> Str("t1"),
    toolInput |-> Obj(c[2])] : c \in ContextCases}

ResponseOptions ==
  {[duration |-> Undef, toolResponse |-> Undef],
   [duration |-> Num(12), toolResponse |-> Obj([stdout |-> Str("ok")])],
   [duration |-> Num(0), toolResponse |-> EmptyObj]}

\* native post_tool_use hooks with and without duration and toolResponse
PostToolRaws ==
  {x @@ [type |-> Str("post_tool_use"), sessionId |-> Str("s1"),
         id |-> Str("e1"), timestamp |-> Num(1000), tool |-> Str(n),
         toolUseId |-> Str("t1"), success |-> Bool(b)] :
     x \in ResponseOptions, n \in {"Task", "Read", "Bash", "mcp__custom__foo"},
     b \in BOOLEAN}

TypeValues ==
  {Str(ty) : ty \in (VALID_EVENT_TYPES \cup claudeTypes) \ 
                     {"pre_tool_use", "post_tool_use", "tool_start", "tool_end"}}
  \cup {Str("bogus"), Str("custom_ping"), Str(""), Undef, Null, Num(3)}

PayloadOptions ==
  {<<>>,
   [text |-> Str("hi"), message |-> Str("m"), prompt |-> Str("p"),
    parentAgentId |-> Str("a0"), cwd |-> Str("/w"),
    metadata |-> Obj([k |-> Str("v")]), extra |-> Str("kept")]}

\* lifecycle events in both vocabularies, and types in neither
LifecycleRaws ==
  {i @@ w @@ x @@ [type |-> ty, sessionId |-> s] :
     i \in IdOptions, w \in WhoOptions, x \in PayloadOptions,
     ty \in TypeValues, s \in {Undef, Str("s1"), Str("")}}

\* native session_start hooks over the values of raw.source
SessionStartRaws ==
  {[type |-> Str("session_start"), sessionId |-> Str("s1"), id |-> Str("e1"),
    timestamp |-> Num(1000), source |-> v] :
     v \in {Undef, Null, Num(1), Str(""), Str("startup"), Str("resume"),
            Str("clear"), Str("compact"), Str("user_input"), Str("Startup")}}

\* tool categories handed to the taxonomy lookups: the ten, and values
\* outside them
CategoryValues ==
  {Str(c) : c \in VALID_CATEGORIES}
  \cup {Str("bogus"), Str(""), Str("constructor"), Str("toString"),
        Str("__proto__"), Undef, Null}

\* canonical tool_start events over those categories
CategoryRaws ==
  {[type |-> Str("tool_start"), id |-> Str("e1"), timestamp |-> Num(1000),
    agentId |-> Str("a1"), source |-> Str("custom"),
    tool |-> Obj([name |-> Str("Read"), category |-> c, id |-> Str("t9")])] :
     c \in CategoryValues}

\* events handled by the subagent handlers in one run
MaxDispatched == 4

\* native tool hooks behind the events the subagent handlers see: Task with
\* and without toolUseId, the end of a Task, and a tool that is not Task
SubagentHookRaws ==
  {[type |-> Str(h[1]), sessionId |-> Str("s1"), id |-> Str(h[2]),
    timestamp |-> Num(1000), tool |-> Str(h[3]), toolUseId |-> h[4],
    toolInput |-> Obj([description |-> Str("explore")])] :
     h \in {<<"pre_tool_use", "e1", "Task", Str("t1")>>,
            <<"pre_tool_use", "e3", "Task", Str("t2")>>,
            <<"pre_tool_use", "e5", "Task", Undef>>,
            <<"post_tool_use", "e2", "Task", Str("t1")>>,
            <<"pre_tool_use", "e7", "Read", Str("t3")>>}}

\* the companion a primary event carries in metadata._alsoEmit
Companion(e) ==
  Get(Field(e, "metadata"), "_alsoEmit")

\* the events the native adapter makes of those hooks, companions included
SubagentEvents ==
  LET primaries == {ClaudeNormalize(r, NoRnd).o : r \in SubagentHookRaws}
  IN primaries \cup {Companion(e).o : e \in {p \in primaries : Companion(p).t = "object"}}

\* eventBus.on calls explored
MaxHandlers == 3

\* events handed to emit: tool events of the delegate and of another
\* category, a tool_start without tool, and a type nobody subscribes to
BusEvents ==
  {[type |-> Str("tool_start"), id |-> Str("e1"), agentId |-> Str("a1"),
    tool |-> Obj([name |-> Str("Task"), category |-> Str("delegate"), id |-> Str("t1")])],
   [type |-> Str("tool_start"), id |-> Str("e2"), agentId |-> Str("a1"),
    tool |-> Obj([name |-> Str("Read"), category |-> Str("read"), id |-> Str("t2")])],
   [type |-> Str("tool_start"), id |-> Str("e3"), agentId |-> Str("a1")],
   [type |-> Str("tool_end"), id |-> Str("e4"), agentId |-> Str("a1"),
    tool |-> Obj([name |-> Str("Task"), category |-> Str("delegate"), id |-> Str("t1")]),
    success |-> Bool(TRUE)],
   [type |-> Str("agent_thinking"), id |-> Str("e5"), agentId |-> Str("a1")]}

\* the context of an emit: sound on or off; no session, a session object
\* without its managers, a complete session
BusContexts ==
  {[soundEnabled |-> Bool(b), session |-> ses] :
     b \in BOOLEAN,
     ses \in {Null,
              Obj([id |-> Str("z1")]),
              Obj([id |-> Str("z1"), subagents |-> Obj([count |-> Num(0)]),
                   stats |-> Obj([activeSubagents |-> Num(0)])])}}

RawInputs ==
  ToolRaws \cup NamedToolRaws \cup ContextRaws \cup PostToolRaws \cup LifecycleRaws
  \cup CategoryRaws \cup SessionStartRaws

-----------------------------------------------------------------------------
(* State:                                                                    *)
(*   adapters  the registry list of index.ts, as adapter names               *)
(*   registered  the adapters handed to registerAdapter so far, oldest first *)
(*   raw       the raw object the caller holds                               *)
(*   arg       the raw object as it was when the last call was made          *)
(*   rnd       what randomUUID() and Date.now() produced during that call    *)
(*   result    what the last call returned (Throw when it threw)             *)
(*   op        the last call                                                 *)
(*   handlers  the bus's handler list of each event type                     *)
(*   subscribed  the handlers handed to eventBus.on so far, oldest first     *)
(*   ctx       the context object of the last emit                           *)
(*   calls     the handler invocations of the last emit, in order            *)
(*   manager   the SubagentManager of the session                            *)
(*   activeSubagents  session.stats.activeSubagents                          *)
(*   managerLog  the spawn and remove calls made on the manager, in order    *)
(*   dispatched  the events the subagent handlers were called with, in order *)
(*   isDemoMode, isExplicitDemo, isReplayMode  the demo engine's flags       *)
(*   timers    the timer handles the engine recorded (_timers)               *)
(*   onComplete  whether a completion callback is set (_onComplete)          *)
(*   timerQueue  the browser's scheduled timers that have neither fired nor  *)
(*             been cleared, each with the closure it will call              *)
(*   nextHandle  the handle the next setTimeout returns                      *)
(*   runNo     the number of times demo mode was started                     *)
(*   firings   the number of timer callbacks the browser has run             *)
(*   effects   the calls made on the config and on onComplete, in order      *)

BusInit ==
  /\ handlers = [ty \in BusEventTypes |-> <<>>]
  /\ subscribed = <<>>
  /\ ctx = Undef
  /\ calls = <<>>

SessionInit ==
  /\ manager = NewSubagentManager
  /\ activeSubagents = 0
  /\ managerLog = <<>>
  /\ dispatched = <<>>

DemoInit ==
  /\ isDemoMode = FALSE
  /\ isExplicitDemo = FALSE
  /\ isReplayMode = FALSE
  /\ timers = {}
  /\ onComplete = FALSE
  /\ timerQueue = {}
  /\ nextHandle = 1
  /\ runNo = 0
  /\ firings = 0
  /\ effects = <<>>

Init ==
  /\ BusInit
  /\ SessionInit
  /\ DemoInit
  /\ adapters = BuiltInAdapters
  /\ registered = <<>>
  /\ raw \in RawInputs
  /\ arg = raw
  /\ rnd = NoRnd
  /\ result = Undef
  /\ op = "init"

\* registerAdapter(a)
RegisterAdapter(a) ==
  /\ Len(adapters) < Len(BuiltInAdapters) + MaxRegistered
  /\ adapters' = Unshift(adapters, a)
  /\ registered' = Append(registered, a)
  /\ result' = Undef
  /\ op' = "registerAdapter"
  /\ UNCHANGED <<raw, arg, rnd, busVars, sessionVars, demoVars>>

\* normalizeEvent(raw)
NormalizeEventCall ==
  \E g \in RndChoices :
    /\ arg' = raw
    /\ rnd' = g
    /\ result' = normalizeEvent(adapters, raw, g)
    /\ raw' = normalizeEventRawAfter(adapters, raw, g)
    /\ op' = "normalizeEvent"
    /\ UNCHANGED <<adapters, registered, busVars, sessionVars, demoVars>>

Next ==
  \/ \E a \in CustomAdapters : RegisterAdapter(a)
  \/ NormalizeEventCall

Spec == Init /\ [][Next]_vars

(* Direct calls of the two built-in adapters' methods, on the same inputs *)

\* new ClaudeCodeAdapter().normalize(raw)
ClaudeNormalizeCall ==
  \E g \in RndChoices :
    /\ arg' = raw
    /\ rnd' = g
    /\ result' = ClaudeNormalize(raw, g)
    /\ op' = "claude.normalize"
    /\ UNCHANGED <<adapters, registered, raw, busVars, sessionVars, demoVars>>

\* new GenericAdapter().normalize(raw)
GenericNormalizeCall ==
  \E g \in RndChoices :
    /\ arg' = raw
    /\ rnd' = g
    /\ result' = GenericNormalize(raw, g)
    /\ raw' = GenericRawAfter(raw, g)
    /\ op' = "generic.normalize"
    /\ UNCHANGED <<adapters, registered, busVars, sessionVars, demoVars>>

\* new ClaudeCodeAdapter().categorize(raw.tool) for a string tool name
CategorizeCall ==
  /\ Field(raw, "tool").t = "string"
  /\ arg' = raw
  /\ result' = categorize(Field(raw, "tool"))
  /\ op' = "claude.categorize"
  /\ UNCHANGED <<adapters, registered, raw, rnd, busVars, sessionVars, demoVars>>

\* getStationForCategory(raw.tool.category) for an event with a tool object
StationCall ==
  /\ Field(raw, "tool").t = "object"
  /\ arg' = raw
  /\ result' = getStationForCategory(Get(Field(raw, "tool"), "category"))
  /\ op' = "getStationForCategory"
  /\ UNCHANGED <<adapters, registered, raw, rnd, busVars, sessionVars, demoVars>>

\* CATEGORY_SOUND_MAP[raw.tool.category]
SoundCall ==
  /\ Field(raw, "tool").t = "object"
  /\ arg' = raw
  /\ result' = soundForCategory(Get(Field(raw, "tool"), "category"))
  /\ op' = "CATEGORY_SOUND_MAP"
  /\ UNCHANGED <<adapters, registered, raw, rnd, busVars, sessionVars, demoVars>>

\* getToolIconByCategory(raw.tool.category)
IconCall ==
  /\ Field(raw, "tool").t = "object"
  /\ arg' = raw
  /\ result' = getToolIconByCategory(Get(Field(raw, "tool"), "category"))
  /\ op' = "getToolIconByCategory"
  /\ UNCHANGED <<adapters, registered, raw, rnd, busVars, sessionVars, demoVars>>

NextAdapters ==
  \/ ClaudeNormalizeCall
  \/ GenericNormalizeCall
  \/ CategorizeCall
  \/ StationCall
  \/ SoundCall
  \/ IconCall

SpecAdapters == Init /\ [][NextAdapters]_vars

(* The event bus on its own: registrations and dispatches *)

InitBus ==
  /\ BusInit
  /\ SessionInit
  /\ DemoInit
  /\ adapters = BuiltInAdapters
  /\ registered = <<>>
  /\ raw = <<>>
  /\ arg = raw
  /\ rnd = NoRnd
  /\ result = Undef
  /\ op = "init"

\* eventBus.on(HandlerType[h], h)
OnCall(h) ==
  /\ Len(subscribed) < MaxHandlers
  /\ handlers' = on(handlers, HandlerType[h], h)
  /\ subscribed' = Append(subscribed, h)
  /\ result' = Undef
  /\ op' = "on"
  /\ UNCHANGED <<adapters, registered, raw, arg, rnd, ctx, calls, sessionVars, demoVars>>

\* eventBus.emit(e, c)
EmitCall(e, c) ==
  /\ arg' = e
  /\ ctx' = Obj(c)
  /\ calls' = emit(handlers, e, Obj(c)).calls
  /\ result' = IF emit(handlers, e, Obj(c)).thrown THEN Throw ELSE Undef
  /\ op' = "emit"
  /\ UNCHANGED <<adapters, registered, raw, rnd, handlers, subscribed, sessionVars, demoVars>>

NextBus ==
  \/ \E h \in HandlerNames : OnCall(h)
  \/ \E e \in BusEvents, c \in BusContexts : EmitCall(e, c)

SpecBus == InitBus /\ [][NextBus]_vars

(* The subagent handlers on the events of a session *)

\* the subagent handler of e's type called with (e, ctx); ctx has a session
\* or none
SubagentHandlerRun(e, withSession) ==
  LET c == IF withSession THEN SubagentHandlerCall(e)
           ELSE [call |-> "none", id |-> Undef, description |-> Undef]
  IN /\ Len(dispatched) < MaxDispatched
     /\ manager' = AfterCall(manager, c)
     /\ activeSubagents' = IF c.call = "none" THEN activeSubagents
                           ELSE Count(AfterCall(manager, c))
     /\ managerLog' = IF c.call = "none" THEN managerLog
                      ELSE Append(managerLog, [call |-> c.call, id |-> c.id])
     /\ dispatched' = IF withSession THEN Append(dispatched, e) ELSE dispatched
     /\ arg' = e
     /\ result' = Undef
     /\ op' = "subagentHandler"
     /\ UNCHANGED <<adapters, registered, raw, rnd, busVars, demoVars>>

NextSubagents ==
  \E e \in SubagentEvents, withSession \in BOOLEAN : SubagentHandlerRun(e, withSession)

SpecSubagents == InitBus /\ [][NextSubagents]_vars

-----------------------------------------------------------------------------
(* Replay bundles (demo/replay.ts) *)

\* Max real-time gap between events before capping (in ms)
MAX_GAP_MS == 20000

\* Number.POSITIVE_INFINITY: above every finite number of the model, and
\* absorbing under addition
Infinity == 2147483647

isFinite(x) == x /= Infinity

Plus(a, b) == IF a = Infinity \/ b = Infinity THEN Infinity ELSE a + b

\* Math.min(a, b)
MathMin(a, b) == IF a < b THEN a ELSE b

REPLAY_SPEEDS == {1, 2, 4, 8, 16}

\* options?.speed ?? 4
ReplaySpeedOf(options) ==
  IF options.t = "object" /\ "speed" \in DOMAIN options.o THEN options.o["speed"] ELSE 4

\* { id, timestamp, ...rest } = event; { ...rest, sessionId: replaySessionId }
ReplayEventOf(event, replaySessionId) ==
  Spread([k \in DOMAIN event \ {"id", "timestamp"} |-> event[k]],
         [sessionId |-> replaySessionId])

\* the delay of step i: the gap to the previous event, capped, then scaled.
\* The timestamps of the model's inputs are multiples of 16, so that the
\* quotient is a whole number for every speed.
ReplayDelay(events, speed, i) ==
  IF i > 1
  THEN MathMin(events[i].timestamp - events[i - 1].timestamp, MAX_GAP_MS) \div speed
  ELSE 0

ReplaySteps(events, speed, replaySessionId) ==
  [i \in 1..Len(events) |->
     [delay |-> ReplayDelay(events, speed, i),
      event |-> ReplayEventOf(events[i], replaySessionId)]]

\* createReplayBundle(apiUrl, sessionId, sessionName, options), once the
\* events are fetched: the bundle, or Throw for a session without events
createReplayBundle(events, sessionId, sessionName, options) ==
  IF Len(events) = 0 THEN Throw
  ELSE [scenarios |->
          <<[sessionId |-> "replay-" \o sessionId,
             managedId |-> "replay-managed-" \o sessionId,
             name |-> sessionName,
             cyclePause |-> Infinity,
             initialDelay |-> 0,
             steps |-> ReplaySteps(events, ReplaySpeedOf(options), "replay-" \o sessionId)]>>,
        sessionIds |-> <<"replay-" \o sessionId>>,
        managedIds |-> <<"replay-managed-" \o sessionId>>]

(* Bounded inputs of createReplayBundle *)

MaxEvents == 3

Timestamps == {0, 16000, 48000}

\* the events of a session as the server returns them: in any order of
\* timestamps
FetchedEvent(i, ts) ==
  [id |-> "ev" \o ToString(i), timestamp |-> ts, type |-> "tool_start",
   sessionId |-> "s1", seq |-> i]

FetchedLists ==
  UNION {{[i \in 1..n |-> FetchedEvent(i, f[i])] : f \in [1..n -> Timestamps]} : n \in 0..MaxEvents}

ReplayOptions == {Undef, Obj(<<>>)} \cup {Obj([speed |-> n]) : n \in REPLAY_SPEEDS}

ReplayRequests == {[events |-> es, options |-> o] : es \in FetchedLists, o \in ReplayOptions}

InitReplay ==
  /\ BusInit
  /\ SessionInit
  /\ DemoInit
  /\ adapters = BuiltInAdapters
  /\ registered = <<>>
  /\ raw \in ReplayRequests
  /\ arg = Undef
  /\ rnd = NoRnd
  /\ result = Undef
  /\ op = "init"

CreateReplayBundleCall ==
  /\ op = "init"
  /\ arg' = raw
  /\ result' = createReplayBundle(raw.events, "s1", "session one", raw.options)
  /\ op' = "createReplayBundle"
  /\ UNCHANGED <<adapters, registered, raw, rnd, busVars, sessionVars, demoVars>>

NextReplay == CreateReplayBundleCall

SpecReplay == InitReplay /\ [][NextReplay]_vars

-----------------------------------------------------------------------------
(* The demo engine (demo/DemoMode.ts) and the browser's timers *)

\* the bundles demo mode plays: the built-in one of several looping
\* scenarios with beams, zone cleanups, an intro and a summary, and the
\* replay of a recorded session
SwarmBundle ==
  [scenarios |->
     <<[name |-> "lead", cyclePause |-> 5000, initialDelay |-> 500,
        steps |-> <<[delay |-> 0, event |-> [type |-> "subagent_spawn"],
                     spawnBeam |-> [from |-> "lead", to |-> "worker"]],
                    [delay |-> 1000, event |-> [type |-> "subagent_end"],
                     deleteZone |-> "worker"]>>],
       [name |-> "worker", cyclePause |-> 5000, initialDelay |-> 5000,
        steps |-> <<[delay |-> 500, event |-> [type |-> "tool_start"]]>>]>>,
   education |-> [intro |-> "intro", summary |-> "summary"]]

RecordedEvents == [i \in 1..3 |-> FetchedEvent(i, <<0, 16000, 48000>>[i])]

ReplayBundle == createReplayBundle(RecordedEvents, "s1", "session one", Obj([speed |-> 16]))

Bundles == [swarm |-> SwarmBundle, replay |-> ReplayBundle]

\* createScenarioBundle(type), for the type played here
createScenarioBundle(type) == CASE type = "swarm" -> "swarm"

\* the callbacks of the DemoModeConfig that are optional
Config == [spawnBeam |-> TRUE, deleteZone |-> TRUE, showSummaryCard |-> TRUE,
           showIntroCard |-> TRUE]

\* the options startDemoMode is called with
StartOptions ==
  {[explicit |-> TRUE, bundle |-> "none", onComplete |-> FALSE, skipIntro |-> FALSE],
   [explicit |-> FALSE, bundle |-> "none", onComplete |-> FALSE, skipIntro |-> TRUE],
   [explicit |-> FALSE, bundle |-> "replay", onComplete |-> TRUE, skipIntro |-> FALSE]}

MaxRuns == 2
MaxFirings == 7
MaxSteps == 3

\* 0.8 + Math.random() * 0.4, in tenths
JitterTenths == {8, 11}

Jitter(delay, tenths) == (delay * tenths) \div 10

\* the delay setTimeout takes: a number converted to a 32-bit integer, which
\* makes 0 of Infinity
TimeoutOf(d) == IF isFinite(d) THEN d ELSE 0

\* the timers: the browser's queue, the engine's _timers and the next handle
TimerState == [queue |-> timerQueue, timers |-> timers, next |-> nextHandle]

\* const timer = setTimeout(closure, delay); _timers.push(timer)
Schedule_Unrecorded(st, closure, delay) ==
  [queue |-> st.queue \cup {[handle |-> st.next, delay |-> TimeoutOf(delay)] @@ closure},
   timers |-> st.timers,
   next |-> st.next + 1]

Schedule(st, closure, delay) ==
  [queue |-> st.queue \cup {[handle |-> st.next, delay |-> TimeoutOf(delay)] @@ closure},
   timers |-> st.timers \cup {st.next},
   next |-> st.next + 1]

\* the closure of a timer: what it calls, and the scenario, cycle, step and
\* run of demo mode it was created in
Closure(kind, b, s, cycle, step, run) ==
  [kind |-> kind, bundle |-> b, scenario |-> s, cycle |-> cycle, step |-> step,
   run |-> run]

\* cumulativeDelay after step i
RECURSIVE CumulativeDelay(_, _, _)
CumulativeDelay(steps, jit, i) ==
  IF i = 0 THEN 0
  ELSE CumulativeDelay(steps, jit, i - 1) + Jitter(steps[i].delay, jit[i])

\* the step timers of one cycle, up to step i
RECURSIVE ScheduleSteps(_, _, _, _, _, _, _)
ScheduleSteps(st, b, s, cycle, run, jit, i) ==
  IF i = 0 THEN st
  ELSE Schedule(ScheduleSteps(st, b, s, cycle, run, jit, i - 1),
                Closure("step", b, s, cycle, i, run),
                CumulativeDelay(Bundles[b].scenarios[s].steps, jit, i))

HasSummary(b) == "education" \in DOMAIN Bundles[b] /\ "summary" \in DOMAIN Bundles[b].education

HasIntro(b) == "education" \in DOMAIN Bundles[b] /\ "intro" \in DOMAIN Bundles[b].education

\* runScenario(scenario, config, bundle) past its guard: the timers of one
\* cycle
runScenario_AlwaysLoops(st, b, s, cycle, run, jit) ==
  LET sc == Bundles[b].scenarios[s]
      cumulativeDelay == CumulativeDelay(sc.steps, jit, Len(sc.steps))
      stepped == ScheduleSteps(st, b, s, cycle, run, jit, Len(sc.steps))
      summarised == IF s = 1 /\ HasSummary(b) /\ Config.showSummaryCard
                    THEN Schedule(stepped, Closure("summary", b, s, cycle, 0, run),
                                  cumulativeDelay + 500)
                    ELSE stepped
  IN Schedule(summarised, Closure("next", b, s, cycle, 0, run),
              Plus(cumulativeDelay, sc.cyclePause))

runScenario(st, b, s, cycle, run, jit) ==
  LET sc == Bundles[b].scenarios[s]
      cumulativeDelay == CumulativeDelay(sc.steps, jit, Len(sc.steps))
      stepped == ScheduleSteps(st, b, s, cycle, run, jit, Len(sc.steps))
      summarised == IF s = 1 /\ HasSummary(b) /\ Config.showSummaryCard
                    THEN Schedule(stepped, Closure("summary", b, s, cycle, 0, run),
                                  cumulativeDelay + 500)
                    ELSE stepped
  IN IF ~isFinite(sc.cyclePause)
     THEN Schedule(stepped, Closure("complete", b, s, cycle, 0, run),
                   cumulativeDelay + 500)
     ELSE Schedule(summarised, Closure("next", b, s, cycle, 0, run),
                   Plus(cumulativeDelay, sc.cyclePause))

\* the timers that start the scenarios of a bundle, up to scenario i
RECURSIVE ScheduleStarts(_, _, _, _, _)
ScheduleStarts(st, b, introDelay, run, i) ==
  IF i = 0 THEN st
  ELSE Schedule(ScheduleStarts(st, b, introDelay, run, i - 1),
                Closure("start", b, i, 0, 0, run),
                Bundles[b].scenarios[i].initialDelay + introDelay)

\* the timers the callback of a step creates after handing over its event
AfterStep(st, t) ==
  LET step == Bundles[t.bundle].scenarios[t.scenario].steps[t.step]
      beamed == IF "spawnBeam" \in DOMAIN step /\ Config.spawnBeam
                THEN Schedule(st, Closure("beam", t.bundle, t.scenario, t.cycle, t.step, t.run), 200)
                ELSE st
  IN IF "deleteZone" \in DOMAIN step /\ Config.deleteZone
     THEN Schedule(beamed, Closure("cleanup", t.bundle, t.scenario, t.cycle, t.step, t.run), 500)
     ELSE beamed

\* what a call made by the closure of timer t is recorded as
Effect(name, t) ==
  [effect |-> name, bundle |-> t.bundle, scenario |-> t.scenario, cycle |-> t.cycle,
   step |-> t.step, run |-> t.run, during |-> runNo]

\* the browser runs the callbacks of two timers of one page in the order of
\* their creation when the earlier one's delay is not the longer one
CanFire(t) ==
  ~ \E u \in timerQueue : u.handle < t.handle /\ u.delay <= t.delay

\* what Math.random() may return to the callback of timer t: only a
\* callback that calls runScenario draws, once for every step
JitterDraws(t) ==
  IF t.kind \in {"start", "next"} THEN [1..MaxSteps -> JitterTenths]
  ELSE {[i \in 1..MaxSteps |-> 10]}

\* startDemoMode(config, options)
StartDemoMode(o) ==
  /\ runNo < MaxRuns
  /\ op' = "startDemoMode"
  /\ UNCHANGED <<adapters, registered, raw, arg, rnd, result, busVars, sessionVars>>
  /\ IF isDemoMode
     THEN UNCHANGED demoVars
     ELSE LET b == IF o.bundle /= "none" THEN o.bundle ELSE createScenarioBundle("swarm")
              showIntro == ~o.skipIntro /\ HasIntro(b)
              introDelay == IF showIntro THEN 2000 ELSE 0
              st == ScheduleStarts([TimerState EXCEPT !.timers = {}], b, introDelay,
                                   runNo + 1, Len(Bundles[b].scenarios))
          IN /\ isDemoMode' = TRUE
             /\ isExplicitDemo' = o.explicit
             /\ isReplayMode' = (o.bundle /= "none")
             /\ onComplete' = o.onComplete
             /\ timers' = st.timers
             /\ timerQueue' = st.queue
             /\ nextHandle' = st.next
             /\ runNo' = runNo + 1
             /\ effects' = IF showIntro /\ Config.showIntroCard
                           THEN Append(effects, [effect |-> "showIntroCard", bundle |-> b,
                                                 scenario |-> 0, cycle |-> 0, step |-> 0,
                                                 run |-> runNo + 1, during |-> runNo + 1])
                           ELSE effects
             /\ UNCHANGED firings

\* stopDemoMode()
StopDemoMode ==
  /\ op' = "stopDemoMode"
  /\ UNCHANGED <<adapters, registered, raw, arg, rnd, result, busVars, sessionVars>>
  /\ IF ~isDemoMode
     THEN UNCHANGED demoVars
     ELSE /\ timerQueue' = {t \in timerQueue : t.handle \notin timers}
          /\ timers' = {}
          /\ isDemoMode' = FALSE
          /\ isExplicitDemo' = FALSE
          /\ isReplayMode' = FALSE
          /\ onComplete' = FALSE
          /\ UNCHANGED <<nextHandle, runNo, firings, effects>>

\* the callback of timer t runs; jit is what Math.random() returns to a
\* runScenario it calls
TimerFires(t, jit) ==
  LET st == [TimerState EXCEPT !.queue = @ \ {t}]
      after == CASE ~isDemoMode -> st
                 [] t.kind = "start" -> runScenario(st, t.bundle, t.scenario, 1, t.run, jit)
                 [] t.kind = "next" -> runScenario(st, t.bundle, t.scenario, t.cycle + 1, t.run, jit)
                 [] t.kind = "step" -> AfterStep(st, t)
                 [] OTHER -> st
      called == CASE ~isDemoMode -> <<>>
                  [] t.kind \in {"start", "next"} -> <<Effect("runScenario", t)>>
                  [] t.kind = "step" -> <<Effect("handleEvent", t)>>
                  [] t.kind = "beam" -> <<Effect("spawnBeam", t)>>
                  [] t.kind = "cleanup" -> <<Effect("deleteZone", t)>>
                  [] t.kind = "summary" -> <<Effect("showSummaryCard", t)>>
                  [] t.kind = "complete" /\ onComplete -> <<Effect("onComplete", t)>>
                  [] OTHER -> <<>>
  IN /\ firings < MaxFirings
     /\ t \in timerQueue
     /\ CanFire(t)
     /\ timerQueue' = after.queue
     /\ timers' = after.timers
     /\ nextHandle' = after.next
     /\ effects' = effects \o called
     /\ firings' = firings + 1
     /\ op' = "timer"
     /\ UNCHANGED <<isDemoMode, isExplicitDemo, isReplayMode, onComplete, runNo>>
     /\ UNCHANGED <<adapters, registered, raw, arg, rnd, result, busVars, sessionVars>>

NextDemo ==
  \/ \E o \in StartOptions : StartDemoMode(o)
  \/ StopDemoMode
  \/ \E t \in timerQueue : \E jit \in JitterDraws(t) : TimerFires(t, jit)

SpecDemo == InitBus /\ [][NextDemo]_vars

-----------------------------------------------------------------------------
(* Properties of the registry *)

\* C1: for every registry state and every raw input, normalizeEvent returns
\* exactly the normalize() result of the first adapter in list order whose
\* canHandle(raw) is true, also when that result is null, and returns null
\* when no adapter's canHandle is true.
C1_FirstMatchDecides ==
  op = "normalizeEvent" =>
    \/ \E i \in 1..Len(adapters) :
         /\ CanHandle(adapters[i], arg)
         /\ \A j \in 1..(i - 1) : ~CanHandle(adapters[j], arg)
         /\ result = Normalize(adapters[i], arg, rnd)
    \/ /\ \A i \in 1..Len(adapters) : ~CanHandle(adapters[i], arg)
       /\ result = Null

\* the first adapter claims the input and filters it, a later adapter claims
\* it too and would have produced an event, and normalizeEvent returned null
C1_Witness ==
  /\ op = "normalizeEvent"
  /\ adapters[1] = "custom-a"
  /\ CanHandle("custom-a", arg)
  /\ GenericCanHandle(arg)
  /\ GenericNormalize(arg, rnd) # Null
  /\ result = Null

\* C2: after any sequence of registerAdapter calls, for every raw input that
\* the most recently registered adapter claims via canHandle, normalizeEvent
\* returns that adapter's normalize result, even if a built-in or an
\* earlier-registered custom adapter would also claim the input.
C2_LastRegisteredWins ==
  (/\ op = "normalizeEvent"
   /\ registered # <<>>
   /\ CanHandle(registered[Len(registered)], arg))
  => result = Normalize(registered[Len(registered)], arg, rnd)

\* custom-b was registered, then custom-a; both of them and both built-ins
\* claim the input, and the result is custom-a's
C2_Witness ==
  /\ op = "normalizeEvent"
  /\ registered = <<"custom-b", "custom-a">>
  /\ \A a \in {"custom-a", "custom-b", "claude-code", "generic"} : CanHandle(a, arg)
  /\ result = CustomANormalize(arg, rnd)
  /\ result # CustomBNormalize(arg, rnd)
  /\ result # ClaudeNormalize(arg, rnd)


\* the ten canonical type tags and the nine native hook names, as documented
CanonicalTypeTags ==
  {"tool_start", "tool_end", "agent_idle", "agent_thinking", "user_input",
   "agent_start", "agent_end", "notification", "subagent_spawn", "subagent_end"}

NativeHookNames ==
  {"pre_tool_use", "post_tool_use", "stop", "subagent_stop", "session_start",
   "session_end", "user_prompt_submit", "notification", "pre_compact"}

ToolCategories ==
  {"read", "write", "edit", "execute", "search",
   "network", "delegate", "plan", "interact", "other"}

IsStringIn(v, S) ==
  v.t = "string" /\ v.s \in S

OnBuiltIns ==
  op = "normalizeEvent" /\ adapters = <<"claude-code", "generic">>

\* C3: with the built-in registry, normalizeEvent never throws for any raw
\* input; malformed input yields null or a value.
C3_NeverThrows ==
  OnBuiltIns => result # Throw

\* a raw input shaped as a canonical event: canonical type tag, string agentId
\* and source
CanonicalShaped(r) ==
  /\ IsStringIn(Field(r, "type"), CanonicalTypeTags)
  /\ Field(r, "agentId").t = "string"
  /\ Field(r, "source").t = "string"

\* tool objects equal except for a defaulted category and a synthesized id
ToolEqualUpToDefaults(out, in) ==
  IF in.t # "object" \/ out.t # "object" THEN out = in
  ELSE \A k \in DOMAIN out.o \cup DOMAIN in.o :
         \/ Field(out.o, k) = Field(in.o, k)
         \/ /\ k = "category"
            /\ ~IsStringIn(Field(in.o, k), ToolCategories)
            /\ Field(out.o, k) = Str("other")
         \/ /\ k = "id"
            /\ ~Truthy(Field(in.o, k))
            /\ Field(out.o, k).t = "string"

\* events equal in every field except a defaulted id, timestamp, tool.category
\* and tool.id
EqualUpToDefaults(out, in) ==
  \A k \in DOMAIN out \cup DOMAIN in :
    \/ Field(out, k) = Field(in, k)
    \/ k = "id" /\ ~Truthy(Field(in, k)) /\ Field(out, k).t = "string"
    \/ k = "timestamp" /\ ~Truthy(Field(in, k)) /\ Field(out, k).t = "number"
    \/ k = "tool" /\ ToolEqualUpToDefaults(Field(out, k), Field(in, k))

\* C4 as stated: for all raw inputs shaped as a valid canonical event with a
\* recognized type, normalizeEvent under the built-in registry returns a value
\* equal to the input except for defaulted id, timestamp, tool.category, tool.id.
C4_PassThroughAsStated ==
  (OnBuiltIns /\ CanonicalShaped(arg))
  => (result.t = "object" /\ EqualUpToDefaults(result.o, arg))

\* C4 amended: the same for canonical-shaped inputs that carry a tool object
\* with a string name when the type is tool_start or tool_end, and that are not
\* a notification with a truthy sessionId (which the native adapter claims).
C4_PassThrough ==
  (/\ OnBuiltIns
   /\ CanonicalShaped(arg)
   /\ ~(Field(arg, "type") = Str("notification") /\ Truthy(Field(arg, "sessionId")))
   /\ Field(arg, "type") \in {Str("tool_start"), Str("tool_end")}
        => Get(Field(arg, "tool"), "name").t = "string")
  => (result.t = "object" /\ EqualUpToDefaults(result.o, arg))

\* a canonical tool_start without id, with an invalid category and a falsy
\* tool id went through: the three were defaulted, the rest was kept
C4_Witness ==
  /\ OnBuiltIns
  /\ CanonicalShaped(arg)
  /\ Field(arg, "type") = Str("tool_start")
  /\ Field(arg, "id") = Undef
  /\ Get(Field(arg, "tool"), "category") = Str("bogus")
  /\ Truthy(Field(arg, "sessionId"))
  /\ result.t = "object"
  /\ result.o.id = Str(rnd.id)
  /\ result.o.tool.o.category = Str("other")
  /\ result.o.tool.o.id = Str(rnd.toolId)
  /\ result.o.tool.o.name = arg.tool.o.name
  /\ result.o.sessionId = arg.sessionId

\* C5: with the built-in registry, for all raw inputs whose type is outside
\* the ten canonical type tags and outside the nine native hook names
\* (including a missing or non-string type), normalizeEvent returns null.
C5_UnknownTypeIsNull ==
  (/\ OnBuiltIns
   /\ ~IsStringIn(Field(arg, "type"), CanonicalTypeTags \cup NativeHookNames))
  => result = Null

\* an input with an unknown type that otherwise satisfies both detections
C5_Witness ==
  /\ OnBuiltIns
  /\ Field(arg, "type") = Str("bogus")
  /\ Truthy(Field(arg, "sessionId"))
  /\ Field(arg, "agentId").t = "string"
  /\ Field(arg, "source").t = "string"
  /\ result = Null

-----------------------------------------------------------------------------
(* Properties of the two built-in adapters *)

\* the companion event in the metadata side-channel of an event value
AlsoEmit(e) ==
  Get(Get(e, "metadata"), "_alsoEmit")

\* C6: for every native pre_tool_use event whose tool is 'Task', normalize
\* returns a tool_start with tool.category 'delegate' and tool.id equal to the
\* raw toolUseId, whose metadata._alsoEmit holds a subagent_spawn event with
\* parentAgentId and agentId equal to the sessionId and toolUseId equal to the
\* primary's tool.id; for any other tool name the tool_start has no companion.
C6_TaskSpawnsCompanion ==
  (op = "claude.normalize" /\ Field(arg, "type") = Str("pre_tool_use")) =>
    /\ Field(arg, "tool") = Str("Task") =>
         /\ result.t = "object"
         /\ result.o.type = Str("tool_start")
         /\ result.o.tool.o.category = Str("delegate")
         /\ result.o.tool.o.id = Field(arg, "toolUseId")
         /\ AlsoEmit(result).t = "object"
         /\ AlsoEmit(result).o.type = Str("subagent_spawn")
         /\ AlsoEmit(result).o.parentAgentId = Field(arg, "sessionId")
         /\ AlsoEmit(result).o.agentId = Field(arg, "sessionId")
         /\ AlsoEmit(result).o.toolUseId = result.o.tool.o.id
    /\ (Field(arg, "tool") # Str("Task") /\ result.t = "object") =>
         /\ result.o.type = Str("tool_start")
         /\ AlsoEmit(result) = Undef

\* a Task pre_tool_use with session and toolUseId was normalized
C6_Witness ==
  /\ op = "claude.normalize"
  /\ Field(arg, "type") = Str("pre_tool_use")
  /\ Field(arg, "tool") = Str("Task")
  /\ Field(arg, "sessionId") = Str("s1")
  /\ Field(arg, "toolUseId") = Str("t1")
  /\ Field(arg, "id") = Str("e1")
  /\ AlsoEmit(result).t = "object"
  /\ AlsoEmit(result).o.toolUseId = Str("t1")

\* C7: for every tool_start or tool_end input accepted by the generic adapter
\* (tool.name is a string), the returned event's tool.category is one of the
\* ten categories, an invalid and a missing category both becoming 'other',
\* and its tool.id is present.
C7_ToolCategoryAndIdDefaulted ==
  (/\ op = "generic.normalize"
   /\ Field(arg, "type") \in {Str("tool_start"), Str("tool_end")}
   /\ Get(Field(arg, "tool"), "name").t = "string")
  => /\ result.t = "object"
     /\ IsStringIn(Get(Get(result, "tool"), "category"), ToolCategories)
     /\ ~IsStringIn(Get(Field(arg, "tool"), "category"), ToolCategories)
          => Get(Get(result, "tool"), "category") = Str("other")
     /\ Get(Get(result, "tool"), "id") # Undef

\* C8: the generic adapter returns null, not a partially built event, for
\* every tool_start or tool_end input whose tool field is missing or whose
\* tool.name is not a string.
C8_ToolWithoutNameIsNull ==
  (/\ op = "generic.normalize"
   /\ Field(arg, "type") \in {Str("tool_start"), Str("tool_end")}
   /\ \/ Field(arg, "tool") = Undef
      \/ Get(Field(arg, "tool"), "name").t # "string")
  => result = Null

\* a tool_end whose tool object has a number for a name was rejected
C8_Witness ==
  /\ op = "generic.normalize"
  /\ Field(arg, "type") = Str("tool_end")
  /\ GenericCanHandle(arg)
  /\ Field(arg, "tool").t = "object"
  /\ Get(Field(arg, "tool"), "name") = Num(5)
  /\ result = Null

\* the variant fields the type tag of an event requires
HasVariantFields(e) ==
  /\ Field(e, "id").t = "string"
  /\ Field(e, "timestamp").t = "number"
  /\ Field(e, "type") \in {Str("tool_start"), Str("tool_end")} =>
       /\ Field(e, "tool").t = "object"
       /\ Get(Field(e, "tool"), "name").t = "string"
       /\ Get(Field(e, "tool"), "id") # Undef
  /\ Field(e, "type") = Str("tool_end") => Field(e, "success").t = "boolean"
  /\ Field(e, "type") = Str("user_input") => Field(e, "text").t = "string"
  /\ Field(e, "type") = Str("notification") => Field(e, "message").t = "string"
  /\ Field(e, "type") = Str("subagent_spawn") => Field(e, "parentAgentId") # Undef

\* C9: every non-null event returned by normalizeEvent under the built-in
\* registry carries the variant fields its type tag requires.
C9_VariantFieldsPresent ==
  (OnBuiltIns /\ result.t = "object") => HasVariantFields(result.o)

\* the direct table as documented
DocumentedToolTable ==
  [Read |-> "read", Write |-> "write", Edit |-> "edit", NotebookEdit |-> "edit",
   Bash |-> "execute", Grep |-> "search", Glob |-> "search",
   WebFetch |-> "network", WebSearch |-> "network", Task |-> "delegate",
   TodoWrite |-> "plan", AskUserQuestion |-> "interact"]

\* C10: categorize is total over all strings: for every tool name it returns
\* one of the ten ToolCategory values without throwing, the direct table's
\* category for the twelve table names, and 'other' for every name that is
\* neither in the table nor matched by the heuristic.
C10_CategorizeTotal ==
  op = "claude.categorize" =>
    LET name == Field(arg, "tool").s
    IN /\ result # Throw
       /\ IsStringIn(result, ToolCategories)
       /\ name \in DOMAIN DocumentedToolTable
            => result = Str(DocumentedToolTable[name])
       /\ (/\ name \notin DOMAIN DocumentedToolTable
           /\ ~(StartsWith(name, "mcp__") /\ McpCategory(ToLowerCase(name)) # ""))
            => result = Str("other")

-----------------------------------------------------------------------------
(* Purity and idempotence *)

\* C11: normalizeEvent does not modify its raw argument: after the call the
\* raw object and its nested tool object hold the same fields and values as
\* before, for both built-in adapters.
C11_RawUnchanged ==
  OnBuiltIns => raw = arg


\* two objects with the same value for every property, a missing property
\* and an undefined one being the same
SameProperties(a, b) ==
  \A k \in DOMAIN a \cup DOMAIN b : Field(a, k) = Field(b, k)

\* a canonical event that has id and timestamp: canonical-shaped, with the
\* tool of a tool event carrying a string name
FullyPopulated(x) ==
  /\ CanonicalShaped(x)
  /\ Truthy(Field(x, "id"))
  /\ Truthy(Field(x, "timestamp"))
  /\ Field(x, "type") \in {Str("tool_start"), Str("tool_end")}
       => Get(Field(x, "tool"), "name").t = "string"

-----------------------------------------------------------------------------
(* Properties of the native adapter *)

\* the last call was ClaudeCodeAdapter.normalize on a raw event of type ty
NativeCallOn(ty) ==
  op = "claude.normalize" /\ Field(arg, "type") = Str(ty)

\* C13: for every native post_tool_use event, whatever the tool name (Task
\* included), normalize returns a tool_end event that carries the raw success,
\* the raw duration and an output equal to the raw toolResponse when one is
\* present.
C13_ToolEndCarriesOutcome ==
  (NativeCallOn("post_tool_use") /\ Field(arg, "tool").t = "string") =>
    /\ result.t = "object"
    /\ Field(result.o, "type") = Str("tool_end")
    /\ Field(result.o, "success") = Field(arg, "success")
    /\ Field(result.o, "duration") = Field(arg, "duration")
    /\ Field(arg, "toolResponse") # Undef
         => Field(result.o, "output") = Field(arg, "toolResponse")

\* the canonical type each lifecycle hook maps to
LifecycleTypeOf ==
  [stop |-> "agent_idle", subagent_stop |-> "agent_idle",
   session_start |-> "agent_start", session_end |-> "agent_end",
   user_prompt_submit |-> "user_input", notification |-> "notification",
   pre_compact |-> "agent_thinking"]

\* C14: the native adapter maps each lifecycle hook to its canonical type:
\* stop and subagent_stop to agent_idle (with reason 'stop' and
\* 'subagent_stop'), session_start to agent_start, session_end to agent_end,
\* user_prompt_submit to user_input, notification to notification, pre_compact
\* to agent_thinking; in every case the result's agentId is the raw sessionId
\* and its source is 'claude-code'.
C14_LifecycleMapping ==
  \A hook \in DOMAIN LifecycleTypeOf :
    NativeCallOn(hook) =>
      /\ result.t = "object"
      /\ Field(result.o, "type") = Str(LifecycleTypeOf[hook])
      /\ hook \in {"stop", "subagent_stop"} => Field(result.o, "reason") = Str(hook)
      /\ Field(result.o, "agentId") = Field(arg, "sessionId")
      /\ Field(result.o, "source") = Str("claude-code")

\* a subagent_stop hook of session s1 whose raw object names another agent and
\* source was normalized
C14_Witness ==
  /\ NativeCallOn("subagent_stop")
  /\ Field(arg, "sessionId") = Str("s1")
  /\ Field(arg, "agentId") = Str("a1")
  /\ Field(arg, "source") = Str("custom")
  /\ result.t = "object"
  /\ Field(result.o, "type") = Str("agent_idle")
  /\ Field(result.o, "agentId") = Str("s1")

\* every property of the tool input is a string
StringInput(r) ==
  /\ Field(r, "toolInput").t = "object"
  /\ \A k \in DOMAIN Field(r, "toolInput").o : Field(r, "toolInput").o[k].t = "string"

\* C15: for every tool_start produced by the native adapter, the context
\* field is either absent or a non-empty string; it is never the empty string
\* (for example for a Bash command whose first line is empty, or a file path
\* that ends in '/').
C15_ContextNeverEmpty ==
  (/\ NativeCallOn("pre_tool_use")
   /\ StringInput(arg)
   /\ result.t = "object"
   /\ Field(result.o, "type") = Str("tool_start"))
  => \/ Field(result.o, "context") = Undef
     \/ /\ Field(result.o, "context").t = "string"
        /\ Field(result.o, "context").s # ""

\* the tools the table puts in the search category
SearchTools ==
  {k \in DOMAIN CLAUDE_TOOL_CATEGORIES : CLAUDE_TOOL_CATEGORIES[k] = "search"}

\* C16: for every native pre_tool_use of a tool in the search category (Grep
\* and Glob) with a non-empty pattern, the tool_start context is the pattern
\* wrapped in slashes, '/' + pattern + '/'.
C16_SearchPatternInSlashes ==
  (/\ NativeCallOn("pre_tool_use")
   /\ Field(arg, "tool") \in {Str(k) : k \in SearchTools}
   /\ Get(Field(arg, "toolInput"), "pattern").t = "string"
   /\ Get(Field(arg, "toolInput"), "pattern").s # "")
  => /\ result.t = "object"
     /\ Field(result.o, "type") = Str("tool_start")
     /\ Field(result.o, "context")
          = Str("/" \o Get(Field(arg, "toolInput"), "pattern").s \o "/")

\* f is the first line of cmd: a prefix without newline that ends where cmd
\* ends or where its first newline stands
IsFirstLine(f, cmd) ==
  /\ Len(f) <= Len(cmd)
  /\ f = SubSeq(cmd, 1, Len(f))
  /\ IndicesOf(f, "\n") = {}
  /\ Len(f) = Len(cmd) \/ CharAt(cmd, Len(f) + 1) = "\n"

\* C17: for every Bash pre_tool_use with a command, the context is the
\* command's first line unchanged when that line has at most 30 characters,
\* and otherwise its first 30 characters followed by '...'; the context is
\* never longer than 33 characters and never contains a newline.
C17_BashFirstLineCapped ==
  (/\ NativeCallOn("pre_tool_use")
   /\ Field(arg, "tool") = Str("Bash")
   /\ Get(Field(arg, "toolInput"), "command").t = "string"
   /\ Get(Field(arg, "toolInput"), "command").s # "")
  => LET cmd == Get(Field(arg, "toolInput"), "command").s
     IN /\ result.t = "object"
        /\ Field(result.o, "context").t = "string"
        /\ LET shown == Field(result.o, "context").s
           IN /\ \E n \in 0..Len(cmd) :
                   /\ IsFirstLine(SubSeq(cmd, 1, n), cmd)
                   /\ n <= 30 => shown = SubSeq(cmd, 1, n)
                   /\ n > 30 => shown = SubSeq(cmd, 1, 30) \o "..."
              /\ Len(shown) <= 33
              /\ IndicesOf(shown, "\n") = {}

\* a Bash command whose first line has 40 characters and is followed by a
\* second line was cut to 30 characters and the ellipsis
C17_Witness ==
  /\ NativeCallOn("pre_tool_use")
  /\ Field(arg, "tool") = Str("Bash")
  /\ Get(Field(arg, "toolInput"), "command")
       = Str("1234567890123456789012345678901234567890\nnext")
  /\ result.t = "object"
  /\ Field(result.o, "context") = Str("123456789012345678901234567890...")


-----------------------------------------------------------------------------
(* Properties of the event bus *)

\* the handlers registered so far for the type of event e, oldest first
RegisteredFor(e) ==
  SelectSeq(subscribed, LAMBDA h : Str(HandlerType[h]) = Field(e, "type"))

\* the calls of the first n of the handlers hs with the last emit's arguments
CallsOf(hs, n) ==
  [i \in 1..n |-> [handler |-> hs[i], event |-> arg, ctx |-> ctx]]

\* C18: when several handlers are registered on the event bus for the same
\* event type, every emit of an event of that type that returns invokes all
\* of them, exactly once each, in the order in which they were registered,
\* each with the same event and the same context object; handlers registered
\* for other types are not invoked.
C18_AllHandlersInOrder ==
  (op = "emit" /\ result # Throw) =>
    calls = CallsOf(RegisteredFor(arg), Len(RegisteredFor(arg)))

\* a tool_start was emitted after soundSpawn, soundToolEnd and soundToolStart
\* were registered in that order: the two tool_start handlers ran, in that order
C18_Witness ==
  /\ op = "emit" /\ result = Undef
  /\ subscribed = <<"soundSpawn", "soundToolEnd", "soundToolStart">>
  /\ Field(arg, "type") = Str("tool_start")
  /\ Get(ctx, "soundEnabled") = Bool(TRUE)
  /\ Len(calls) = 2
  /\ calls[1].handler = "soundSpawn" /\ calls[2].handler = "soundToolStart"

\* positions in the handler list of the last emit whose handler throws
Throwers ==
  {i \in 1..Len(RegisteredFor(arg)) :
     HandlerThrows(RegisteredFor(arg)[i], arg, ctx)}

\* C19: when a handler throws during emit, the bus does not catch it: the
\* exception reaches the caller of emit, and the handlers registered after
\* the throwing one for that event type are not invoked for that event, while
\* the handlers registered before it have already run.
C19_ThrowPropagates ==
  (op = "emit" /\ Throwers # {}) =>
    /\ result = Throw
    /\ calls = CallsOf(RegisteredFor(arg), MinOf(Throwers))

\* a delegate tool_start was emitted with sound off and a session without
\* managers: soundToolStart returned, subagentToolStart threw, soundSpawn
\* was not called
C19_Witness ==
  /\ op = "emit" /\ result = Throw
  /\ subscribed = <<"soundToolStart", "subagentToolStart", "soundSpawn">>
  /\ Get(Field(arg, "tool"), "category") = Str("delegate")
  /\ Get(ctx, "soundEnabled") = Bool(FALSE)
  /\ Len(calls) = 2
  /\ calls[1].handler = "soundToolStart" /\ calls[2].handler = "subagentToolStart"


-----------------------------------------------------------------------------
(* Properties of the category taxonomy *)

\* the category the last taxonomy lookup was made for
LookedUp ==
  Get(Field(arg, "tool"), "category")

\* C20: the three taxonomy lookups are total: for each of the ten
\* ToolCategory values the station, sound and icon lookups return a defined
\* value; category 'other' yields station 'center', sound 'read' and the
\* wrench icon, and getStationForCategory and getToolIconByCategory return
\* 'center' and the wrench icon for a value outside the ten.
C20_LookupsTotal ==
  /\ op \in {"getStationForCategory", "CATEGORY_SOUND_MAP", "getToolIconByCategory"}
       => (LookedUp \in {Str(c) : c \in ToolCategories} => result.t = "string")
  /\ (op = "getStationForCategory" /\ LookedUp = Str("other"))
       => result = Str("center")
  /\ (op = "CATEGORY_SOUND_MAP" /\ LookedUp = Str("other"))
       => result = Str("read")
  /\ (op = "getToolIconByCategory" /\ LookedUp = Str("other"))
       => result = Str("U+1F527")
  /\ (op = "getStationForCategory" /\ LookedUp \notin {Str(c) : c \in ToolCategories})
       => result = Str("center")
  /\ (op = "getToolIconByCategory" /\ LookedUp \notin {Str(c) : c \in ToolCategories})
       => result = Str("U+1F527")


-----------------------------------------------------------------------------
(* Further properties of the registry and of the native adapter *)

\* C21: in every reachable registry state, after any number of
\* registerAdapter calls, the generic pass-through adapter is the last adapter
\* in the list and the native (claude-code) adapter comes before it; no
\* operation removes or reorders built-in adapters.
C21_BuiltInsStayLast ==
  /\ Len(adapters) = Len(registered) + 2
  /\ adapters[Len(adapters)] = "generic"
  /\ adapters[Len(adapters) - 1] = "claude-code"
  /\ \A i \in 1..Len(registered) : adapters[i] \notin {"claude-code", "generic"}

\* two adapters were registered and the built-ins are still the last two
C21_Witness ==
  /\ op = "registerAdapter"
  /\ Len(registered) >= 2
  /\ SubSeq(adapters, Len(adapters) - 1, Len(adapters)) = <<"claude-code", "generic">>

\* the substring rules in their priority order
HeuristicRules ==
  <<[subs |-> {"browser", "playwright"}, category |-> "interact"],
    [subs |-> {"search", "query"}, category |-> "search"],
    [subs |-> {"fetch", "http", "api"}, category |-> "network"],
    [subs |-> {"read", "get"}, category |-> "read"],
    [subs |-> {"write", "create", "set"}, category |-> "write"],
    [subs |-> {"edit", "update", "modify"}, category |-> "edit"],
    [subs |-> {"run", "exec"}, category |-> "execute"]>>

\* the category of the first rule with a substring in the lower-cased name,
\* 'other' when no rule has one
ByHeuristic(name) ==
  LET hits == {i \in 1..Len(HeuristicRules) :
                 \E sub \in HeuristicRules[i].subs : Includes(ToLowerCase(name), sub)}
  IN IF hits = {} THEN "other" ELSE HeuristicRules[MinOf(hits)].category

\* C22 as stated: for a tool name not in the direct table, the substring
\* heuristic of categorize applies to the lower-cased name in the fixed
\* priority order, first match wins, otherwise other.
C22_HeuristicForEveryName ==
  (op = "claude.categorize" /\ Field(arg, "tool").s \notin DOMAIN DocumentedToolTable)
    => result = Str(ByHeuristic(Field(arg, "tool").s))

\* C22: for a tool name that starts with 'mcp__' (and so is not in the direct
\* table), the substring heuristic of categorize applies to the lower-cased
\* name in the fixed priority order, first match wins, otherwise other.
C22_HeuristicForMcpNames ==
  (op = "claude.categorize" /\ StartsWith(Field(arg, "tool").s, "mcp__"))
    => result = Str(ByHeuristic(Field(arg, "tool").s))

\* an mcp__ name with both 'search' and 'fetch' was categorized as search
C22_Witness ==
  /\ op = "claude.categorize"
  /\ Field(arg, "tool") = Str("mcp__web__search_fetch")
  /\ result = Str("search")

\* C23: for every native session_start event, the agent_start trigger is
\* 'startup' when the raw source is 'startup', 'resume' when it is 'resume',
\* and 'other' for every other value including a missing one; it is never
\* 'user_input'.
C23_StartTrigger ==
  NativeCallOn("session_start") =>
    /\ result.t = "object"
    /\ Field(result.o, "type") = Str("agent_start")
    /\ Field(arg, "source") = Str("startup") => Field(result.o, "trigger") = Str("startup")
    /\ Field(arg, "source") = Str("resume") => Field(result.o, "trigger") = Str("resume")
    /\ Field(arg, "source") \notin {Str("startup"), Str("resume")}
         => Field(result.o, "trigger") = Str("other")
    /\ Field(result.o, "trigger") # Str("user_input")

\* a session_start whose source is 'user_input' was given the trigger 'other'
C23_Witness ==
  /\ NativeCallOn("session_start")
  /\ Field(arg, "source") = Str("user_input")
  /\ result.t = "object"
  /\ Field(result.o, "trigger") = Str("other")

\* C24: under the built-in registry, a raw input that both built-in adapters
\* accept (type 'notification' with a truthy sessionId and string agentId and
\* source) is normalized by the native adapter: the result's agentId is the
\* raw sessionId and its source is 'claude-code', whatever agentId and source
\* the raw input carried.
C24_OverlapGoesNative ==
  (/\ op = "normalizeEvent" /\ registered = <<>>
   /\ Field(arg, "type") = Str("notification")
   /\ Truthy(Field(arg, "sessionId"))
   /\ Field(arg, "agentId").t = "string"
   /\ Field(arg, "source").t = "string")
  => /\ result.t = "object"
     /\ Field(result.o, "type") = Str("notification")
     /\ Field(result.o, "agentId") = Field(arg, "sessionId")
     /\ Field(result.o, "source") = Str("claude-code")

\* a notification of session s1 that names agent a1 and source 'custom' was
\* normalized to an event of agent s1
C24_Witness ==
  /\ op = "normalizeEvent" /\ registered = <<>>
  /\ Field(arg, "type") = Str("notification")
  /\ Field(arg, "sessionId") = Str("s1")
  /\ Field(arg, "agentId") = Str("a1")
  /\ Field(arg, "source") = Str("custom")
  /\ result.t = "object"
  /\ Field(result.o, "agentId") = Str("s1")

\* C25: for every raw input that ClaudeCodeAdapter.canHandle accepts,
\* normalize returns a non-null event whenever it returns; under the built-in
\* registry a null result arises only from no adapter matching or from the
\* generic adapter rejecting a tool event.
C25_NativeNeverFilters ==
  (op = "normalizeEvent" /\ registered = <<>>) =>
    /\ ClaudeCanHandle(arg) => result # Null
    /\ result = Null =>
         \/ ~ClaudeCanHandle(arg) /\ ~GenericCanHandle(arg)
         \/ /\ ~ClaudeCanHandle(arg)
            /\ GenericCanHandle(arg)
            /\ Field(arg, "type") \in {Str("tool_start"), Str("tool_end")}

\* a stop hook the native adapter accepts was normalized to an event
C25_Witness ==
  /\ op = "normalizeEvent" /\ registered = <<>>
  /\ ClaudeCanHandle(arg)
  /\ Field(arg, "type") = Str("stop")
  /\ result.t = "object"
  /\ Field(result.o, "type") = Str("agent_idle")

\* C26: for every native Task pre_tool_use and Task post_tool_use, the primary
\* event (tool_start, tool_end) and its embedded companion (subagent_spawn,
\* subagent_end) have different ids, the primary's id being the companion's id
\* followed by '_tool', and they share the same timestamp, agentId and
\* toolUseId (primary tool.id equals companion toolUseId); a Task
\* post_tool_use always yields a tool_end with a subagent_end companion.
C26_PrimaryAndCompanion ==
  \A hook \in {"pre_tool_use", "post_tool_use"} :
    (NativeCallOn(hook) /\ Field(arg, "tool") = Str("Task")) =>
      /\ result.t = "object"
      /\ AlsoEmit(result).t = "object"
      /\ Field(result.o, "type")
           = IF hook = "pre_tool_use" THEN Str("tool_start") ELSE Str("tool_end")
      /\ Field(AlsoEmit(result).o, "type")
           = IF hook = "pre_tool_use" THEN Str("subagent_spawn") ELSE Str("subagent_end")
      /\ Field(result.o, "id") # Field(AlsoEmit(result).o, "id")
      /\ Field(result.o, "id") = Str(ToStr(Field(AlsoEmit(result).o, "id")) \o "_tool")
      /\ Field(result.o, "timestamp") = Field(AlsoEmit(result).o, "timestamp")
      /\ Field(result.o, "agentId") = Field(AlsoEmit(result).o, "agentId")
      /\ Get(Field(result.o, "tool"), "id") = Field(AlsoEmit(result).o, "toolUseId")

\* a Task post_tool_use with id e1 gave the tool_end e1_tool with the
\* subagent_end e1 as companion
C26_Witness ==
  /\ NativeCallOn("post_tool_use")
  /\ Field(arg, "tool") = Str("Task")
  /\ result.t = "object"
  /\ Field(result.o, "id") = Str("e1_tool")
  /\ AlsoEmit(result).t = "object"
  /\ Field(AlsoEmit(result).o, "id") = Str("e1")
  /\ Field(AlsoEmit(result).o, "type") = Str("subagent_end")


-----------------------------------------------------------------------------
(* Properties of the subagent manager *)

\* the ids spawned and not removed since, from the calls made
Outstanding(log) ==
  {log[i].id : i \in {j \in 1..Len(log) :
                        /\ log[j].call = "spawn"
                        /\ \A k \in (j + 1)..Len(log) :
                             ~(log[k].call = "remove" /\ log[k].id = log[j].id)}}

\* the handlers were given exactly a delegate tool_start and its companion
\* subagent_spawn, in either order
PrimaryAndCompanionDispatched ==
  /\ Len(dispatched) = 2
  /\ \E i \in 1..2 :
       /\ Field(dispatched[i], "type") = Str("tool_start")
       /\ Get(Field(dispatched[i], "tool"), "category") = Str("delegate")
       /\ Companion(dispatched[i]) = Obj(dispatched[3 - i])

\* C27: for any sequence of SubagentManager.spawn and remove calls, the
\* tracked count equals the number of distinct toolUseIds that were spawned
\* and not removed since: spawn with an outstanding id creates no second
\* subagent and remove of an unknown id changes nothing; hence dispatching
\* both a delegate tool_start and its companion subagent_spawn tracks exactly
\* one subagent, and session.stats.activeSubagents equals that count after
\* every subagent handler.
C27_CountIsOutstanding ==
  /\ Count(manager) = Cardinality(Outstanding(managerLog))
  /\ DOMAIN manager.subagents = Outstanding(managerLog)
  /\ Cardinality(manager.claudes) = Count(manager)
  /\ op = "subagentHandler" => activeSubagents = Count(manager)
  /\ PrimaryAndCompanionDispatched => Count(manager) = 1

-----------------------------------------------------------------------------
(* Properties of the demo engine *)

\* the calls of handleEvent among the effects, by their places
HandedOver == {i \in 1..Len(effects) : effects[i].effect = "handleEvent"}

\* C28: after stopDemoMode no callback of the stopped run is executed, also
\* when demo mode is started again: every call a timer makes is made during
\* the run that created the timer, every scheduled timer belongs to the
\* current run and is recorded in _timers, and no timer is left scheduled
\* once demo mode is stopped.
C28_StoppedRunIsSilent ==
  /\ \A i \in 1..Len(effects) : effects[i].run = effects[i].during
  /\ \A t \in timerQueue : t.run = runNo /\ t.handle \in timers
  /\ ~isDemoMode => timerQueue = {}

\* a first run handed over the step that launches a beam and was stopped
\* before the beam's timer fired; demo mode was started again and the second
\* run has handed over an event
C28_Witness ==
  /\ runNo = 2
  /\ \E i \in HandedOver : effects[i].run = 1 /\ effects[i].bundle = "swarm"
                            /\ effects[i].scenario = 1 /\ effects[i].step = 1
  /\ ~ \E i \in 1..Len(effects) : effects[i].run = 1 /\ effects[i].effect = "spawnBeam"
  /\ \E i \in HandedOver : effects[i].run = 2

\* the scenario of an effect does not loop
OfReplay(e) == ~isFinite(Bundles[e.bundle].scenarios[e.scenario].cyclePause)

\* C29: while demo mode stays active the steps of a scenario are handed to
\* handleEvent in step order within a cycle and cycle after cycle; a scenario
\* with an infinite cyclePause is played in one cycle only, onComplete is
\* called once, after all its steps, and has been called when no timer of
\* the replay is left.
C29_StepsInOrder ==
  /\ \A i, j \in HandedOver :
        (i < j /\ effects[i].run = effects[j].run /\ effects[i].scenario = effects[j].scenario)
        => \/ effects[i].cycle < effects[j].cycle
           \/ effects[i].cycle = effects[j].cycle /\ effects[i].step < effects[j].step
  /\ \A i \in HandedOver : OfReplay(effects[i]) => effects[i].cycle = 1
  /\ \A j \in 1..Len(effects) :
        effects[j].effect = "onComplete"
        => /\ \A k \in 1..Len(Bundles[effects[j].bundle].scenarios[effects[j].scenario].steps) :
                \E i \in HandedOver : i < j /\ effects[i].run = effects[j].run
                                      /\ effects[i].scenario = effects[j].scenario
                                      /\ effects[i].step = k
           /\ ~ \E i \in HandedOver : i > j /\ effects[i].run = effects[j].run
           /\ ~ \E i \in 1..Len(effects) : i /= j /\ effects[i].effect = "onComplete"
                                           /\ effects[i].run = effects[j].run
  /\ (isDemoMode /\ isReplayMode /\ onComplete /\ timerQueue = {})
     => \E j \in 1..Len(effects) : effects[j].effect = "onComplete" /\ effects[j].run = runNo

\* a looping scenario has begun its second cycle
C29_Witness ==
  \E i, j \in HandedOver :
    /\ i < j
    /\ effects[i].run = effects[j].run /\ effects[i].bundle = "swarm"
    /\ effects[i].scenario = 1 /\ effects[j].scenario = 1
    /\ effects[i].cycle = 1 /\ effects[i].step = 2
    /\ effects[j].cycle = 2 /\ effects[j].step = 1

\* a replay has been played to its end
ReplayCompleted ==
  \E j \in 1..Len(effects) : effects[j].effect = "onComplete" /\ effects[j].bundle = "replay"

-----------------------------------------------------------------------------
(* Properties of replay bundles *)

\* createReplayBundle returned the bundle of the fetched events
ReplayBundleOf(es) == op = "createReplayBundle" /\ arg.events = es /\ result /= Throw

\* C30: every step createReplayBundle makes has a delay between 0 and
\* 20000/speed, the first step's delay is 0, and the steps keep the order of
\* the fetched events, whatever the timestamps.
C30_DelaysWithinCap ==
  (op = "createReplayBundle" /\ result /= Throw)
  => LET steps == result.scenarios[1].steps
         speed == ReplaySpeedOf(arg.options)
     IN /\ Len(steps) = Len(arg.events)
        /\ steps[1].delay = 0
        /\ \A i \in 1..Len(steps) :
              /\ 0 <= steps[i].delay
              /\ steps[i].delay * speed <= MAX_GAP_MS
              /\ steps[i].event.seq = arg.events[i].seq

====
